---- MODULE Spec2Model ----
(***************************************************************************)
(* LocalPlay: ingestion of a picked directory tree into the                *)
(* Course / Lesson / Video catalog (utils/folderParser.ts,                 *)
(* hooks/useFileSystem.ts), the IndexedDB stores (utils/storage.ts) and    *)
(* the progress engine (hooks/useProgress.ts) with the views that drive    *)
(* it (CourseGrid, LessonGrid, VideoPlayer).                               *)
(*                                                                         *)
(* File and folder names are TLA+ strings; a character of a name is the    *)
(* one-character string SubSeq(s, i, i).                                   *)
(***************************************************************************)
EXTENDS Integers, Sequences, FiniteSets, TLC

(***************************************************************************)
(* Bounds of the model.                                                    *)
(***************************************************************************)
\* Date.now() takes the values 1..MaxTime
MaxTime == 3

(***************************************************************************)
(* JavaScript values.                                                      *)
(***************************************************************************)
\* the JS value undefined (an absent optional field, a missing store entry)
undefined == "undefined"

\* the JS value null
null == "null"

\* a finite JS number n
Num(n) == [fin |-> TRUE, val |-> n]

\* the JS number Infinity
Infinity == [fin |-> FALSE, val |-> 0]

(***************************************************************************)
(* Strings.                                                                *)
(***************************************************************************)
CharAt(s, i) == SubSeq(s, i, i)

\* the lower-case form of every upper-case letter
LowerCaseOf ==
    [A |-> "a", B |-> "b", C |-> "c", D |-> "d", E |-> "e", F |-> "f", G |-> "g", H |-> "h",
     I |-> "i", J |-> "j", K |-> "k", L |-> "l", M |-> "m", N |-> "n", O |-> "o", P |-> "p",
     Q |-> "q", R |-> "r", S |-> "s", T |-> "t", U |-> "u", V |-> "v", W |-> "w", X |-> "x",
     Y |-> "y", Z |-> "z"]

\* U+0130, LATIN CAPITAL LETTER I WITH DOT ABOVE, written "|" in the names of this module
CapitalDottedI == "|"

\* U+0307, COMBINING DOT ABOVE, written "^" in the names of this module
CombiningDot == "^"

\* String.prototype.toLowerCase, one character: the Unicode default case conversion, by
\* which U+0130 becomes the two code units U+0069 U+0307
ToLowerChar(c) ==
    IF c = CapitalDottedI THEN "i" \o CombiningDot
    ELSE IF c \in DOMAIN LowerCaseOf THEN LowerCaseOf[c] ELSE c

RECURSIVE toLowerCase(_)
\* String.prototype.toLowerCase
toLowerCase(s) ==
    IF s = "" THEN "" ELSE ToLowerChar(Head(s)) \o toLowerCase(Tail(s))

\* String.prototype.lastIndexOf for a one-character needle, 1-based; 0 when absent (JS: -1)
lastIndexOf(s, c) ==
    LET hits == { i \in 1..Len(s) : CharAt(s, i) = c }
    IN  IF hits = {} THEN 0 ELSE CHOOSE i \in hits : \A j \in hits : j <= i

\* String.prototype.endsWith
endsWith(s, suffix) ==
    /\ Len(suffix) <= Len(s)
    /\ SubSeq(s, Len(s) - Len(suffix) + 1, Len(s)) = suffix

\* the characters the regular expressions \d, [\s\-_.] and \s match
DigitChars == {"0", "1", "2", "3", "4", "5", "6", "7", "8", "9"}

SeparatorChars == {" ", "-", "_", "."}

WhitespaceChars == {" "}

DigitValue(c) ==
    CASE c = "0" -> 0 [] c = "1" -> 1 [] c = "2" -> 2 [] c = "3" -> 3 [] c = "4" -> 4
      [] c = "5" -> 5 [] c = "6" -> 6 [] c = "7" -> 7 [] c = "8" -> 8 [] c = "9" -> 9

RECURSIVE LeadingRun(_, _)
\* length of the longest prefix of s made of characters of the set chars
LeadingRun(s, chars) ==
    IF s = "" \/ Head(s) \notin chars THEN 0 ELSE 1 + LeadingRun(Tail(s), chars)

RECURSIVE TrailingRun(_, _)
\* length of the longest suffix of s made of characters of the set chars
TrailingRun(s, chars) ==
    IF s = "" \/ CharAt(s, Len(s)) \notin chars THEN 0
    ELSE 1 + TrailingRun(SubSeq(s, 1, Len(s) - 1), chars)

\* String.prototype.trim
trim(s) ==
    LET a == LeadingRun(s, WhitespaceChars)
        t == SubSeq(s, a + 1, Len(s))
    IN  SubSeq(t, 1, Len(t) - TrailingRun(t, WhitespaceChars))

RECURSIVE parseInt(_)
\* parseInt(digits, 10) of a non-empty run of decimal digits
parseInt(digits) ==
    IF digits = "" THEN 0
    ELSE 10 * parseInt(SubSeq(digits, 1, Len(digits) - 1)) + DigitValue(CharAt(digits, Len(digits)))

(***************************************************************************)
(* utils/folderParser.ts: names.                                           *)
(***************************************************************************)
VIDEO_EXTENSIONS ==
    {".mp4", ".webm", ".ogg", ".mov", ".avi", ".mkv", ".m4v", ".flv", ".wmv", ".mpg", ".mpeg"}

\* filename.toLowerCase().slice(filename.lastIndexOf('.')); slice(-1) is the last character
isVideoFile(filename) ==
    LET lower == toLowerCase(filename)
        dot   == lastIndexOf(filename, ".")
        ext   == IF dot = 0 THEN SubSeq(lower, Len(lower), Len(lower))
                 ELSE SubSeq(lower, dot, Len(lower))
    IN  ext \in VIDEO_EXTENSIONS

\* name.match(/^(\d)/) in place of name.match(/^(\d+)/): one digit only
extractFirstDigit(name) == SubSeq(name, 1, IF LeadingRun(name, DigitChars) > 0 THEN 1 ELSE 0)

\* name.match(/^(\d+)/)
extractNumberPrefix(name) == SubSeq(name, 1, LeadingRun(name, DigitChars))

extractNumber(name) ==
    IF extractNumberPrefix(name) = "" THEN Infinity ELSE Num(parseInt(extractNumberPrefix(name)))

\* name.replace(/^\d+[\s\-_.]*/, '').trim()
cleanName(name) ==
    LET d    == LeadingRun(name, DigitChars)
        rest == SubSeq(name, d + 1, Len(name))
    IN  IF d = 0 THEN trim(name)
        ELSE trim(SubSeq(rest, LeadingRun(rest, SeparatorChars) + 1, Len(rest)))

\* filename.replace(/\.[^/.]+$/, ''): drops the last ".ext" when ext is non-empty and has no "/"
removeExtension(filename) ==
    LET dot == lastIndexOf(filename, ".")
    IN  IF /\ dot > 0
           /\ dot < Len(filename)
           /\ \A i \in (dot + 1)..Len(filename) : CharAt(filename, i) # "/"
        THEN SubSeq(filename, 1, dot - 1)
        ELSE filename

generateCourseId(folderName) == "course-" \o folderName

generateLessonId(courseName, lessonName) == "lesson-" \o courseName \o "-" \o lessonName

generateVideoId(courseName, lessonName, fileName) ==
    "video-" \o courseName \o "-" \o lessonName \o "-" \o fileName

(***************************************************************************)
(* The directory trees the picker can hand out.  A file carries what       *)
(* opening and decoding it yields: whether getFile() resolves, its media   *)
(* duration in seconds, whether the <video> element can decode it (corrupt *)
(* file, unsupported codec), and whether the element stays silent, firing  *)
(* no event before the probe's timeout.                                    *)
(***************************************************************************)
File(name, duration, decodes) ==
    [kind |-> "file", name |-> name, path |-> "", duration |-> duration,
     decodes |-> decodes, opens |-> TRUE, stalls |-> FALSE, entries |-> <<>>]

\* a file whose getFile() rejects (NotReadableError, NotFoundError)
UnreadableFile(name) ==
    [kind |-> "file", name |-> name, path |-> "", duration |-> 0,
     decodes |-> FALSE, opens |-> FALSE, stalls |-> FALSE, entries |-> <<>>]

\* a file on which the <video> element fires neither loadedmetadata nor error
StalledFile(name, duration) ==
    [kind |-> "file", name |-> name, path |-> "", duration |-> duration,
     decodes |-> FALSE, opens |-> TRUE, stalls |-> TRUE, entries |-> <<>>]

Dir(name, entries) ==
    [kind |-> "directory", name |-> name, path |-> "", duration |-> 0,
     decodes |-> FALSE, opens |-> TRUE, stalls |-> FALSE, entries |-> entries]

\* a directory the user can pick; path tells two picked directories of one name apart
Root(path, name, entries) ==
    [kind |-> "directory", name |-> name, path |-> path, duration |-> 0,
     decodes |-> FALSE, opens |-> TRUE, stalls |-> FALSE, entries |-> entries]

(***************************************************************************)
(* utils/folderParser.ts: probing, caption lookup, parsing, sorting.       *)
(***************************************************************************)
\* the exit a probe's promise is resolved on: the catch around getFile(), the handler of
\* the event the <video> element fires (ready names the event of a successful decode), or
\* the timeout
ProbeExit(file, ready) ==
    IF ~file.opens THEN "catch"
    ELSE IF file.decodes THEN ready
    ELSE IF file.stalls THEN "setTimeout" ELSE "onerror"

\* resolves video.duration || 0 on loadedmetadata, 0 on error, timeout or a failing getFile()
getVideoDuration(file) ==
    IF ProbeExit(file, "onloadedmetadata") = "onloadedmetadata" THEN file.duration ELSE 0

\* resolves a JPEG data URL of one frame, '' on error, timeout or a failing getFile()
generateThumbnail(file, duration) ==
    IF ProbeExit(file, "onseeked") = "onseeked" THEN "data:image/jpeg;" \o file.name ELSE ""

\* an object URL: who called URL.createObjectURL and on which file
ObjectUrl(by, file) == [by |-> by, of |-> file.name]

\* getVideoDuration and generateThumbnail without URL.revokeObjectURL in the timeout
RevokesUnlessTimeout(exit) == exit \in {"onloadedmetadata", "onseeked", "onerror"}

\* the exits of getVideoDuration and generateThumbnail that call URL.revokeObjectURL
Revokes(exit) == exit \in {"onloadedmetadata", "onseeked", "onerror", "setTimeout"}

\* the object URLs a probe has created and not revoked when its promise is resolved
UrlsLeft(by, file, ready) ==
    IF ProbeExit(file, ready) # "catch" /\ ~Revokes(ProbeExit(file, ready))
    THEN << ObjectUrl(by, file) >> ELSE << >>

\* srtNameWithoutExt.toLowerCase() === videoNameWithoutExt.toLowerCase() in place of ===
findSubtitleIgnoringCase(parentDir, lessonName, videoFilename) ==
    LET subtitlesFolderName == lessonName \o "_subtitles"
        dirs == SelectSeq(parentDir.entries,
                          LAMBDA e : e.kind = "directory" /\ e.name = subtitlesFolderName)
        videoNameWithoutExt == removeExtension(videoFilename)
        isMatch(e) ==
            /\ e.kind = "file"
            /\ endsWith(toLowerCase(e.name), ".srt")
            /\ toLowerCase(SubSeq(e.name, 1, Len(e.name) - 4)) = toLowerCase(videoNameWithoutExt)
    IN  IF dirs = <<>> THEN undefined
        ELSE LET hits == SelectSeq(dirs[1].entries, isMatch)
             IN  IF hits = <<>> THEN undefined ELSE hits[1].name

\* the handle of the first .srt file of {lessonName}_subtitles named like the video
findSubtitleForVideo(parentDir, lessonName, videoFilename) ==
    LET subtitlesFolderName == lessonName \o "_subtitles"
        dirs == SelectSeq(parentDir.entries,
                          LAMBDA e : e.kind = "directory" /\ e.name = subtitlesFolderName)
        videoNameWithoutExt == removeExtension(videoFilename)
        isMatch(e) ==
            /\ e.kind = "file"
            /\ endsWith(toLowerCase(e.name), ".srt")
            /\ SubSeq(e.name, 1, Len(e.name) - 4) = videoNameWithoutExt
    IN  IF dirs = <<>> THEN undefined
        ELSE LET hits == SelectSeq(dirs[1].entries, isMatch)
             IN  IF hits = <<>> THEN undefined ELSE hits[1].name

\* a.sortOrder - b.sortOrder, by the sign of the JS number it yields
\* b.sortOrder - a.sortOrder in place of a.sortOrder - b.sortOrder
bySortOrderDesc(a, b) ==
    CASE a.sortOrder.fin /\ b.sortOrder.fin ->
            IF b.sortOrder.val < a.sortOrder.val THEN "negative"
            ELSE IF b.sortOrder.val > a.sortOrder.val THEN "positive" ELSE "zero"
      [] a.sortOrder.fin /\ ~b.sortOrder.fin -> "positive"
      [] ~a.sortOrder.fin /\ b.sortOrder.fin -> "negative"
      [] OTHER -> "NaN"

\* a.sortOrder - b.sortOrder, by the sign of the JS number it yields (Infinity - Infinity is NaN)
bySortOrder(a, b) ==
    CASE a.sortOrder.fin /\ b.sortOrder.fin ->
            IF a.sortOrder.val < b.sortOrder.val THEN "negative"
            ELSE IF a.sortOrder.val > b.sortOrder.val THEN "positive" ELSE "zero"
      [] a.sortOrder.fin /\ ~b.sortOrder.fin -> "negative"
      [] ~a.sortOrder.fin /\ b.sortOrder.fin -> "positive"
      [] OTHER -> "NaN"

\* LessonGrid.getRecentLessons: the comparator of its sort
\* a.timestamp - b.timestamp in place of b.timestamp - a.timestamp
byTimestampAsc(a, b) ==
    IF a.timestamp < b.timestamp THEN "negative"
    ELSE IF a.timestamp > b.timestamp THEN "positive" ELSE "zero"

\* b.timestamp - a.timestamp, by the sign of the JS number it yields
byTimestampDesc(a, b) ==
    IF b.timestamp < a.timestamp THEN "negative"
    ELSE IF b.timestamp > a.timestamp THEN "positive" ELSE "zero"

\* the call of the comparator function handed to sort, named by compareFn
Call(compareFn, a, b) ==
    IF compareFn = "bySortOrder" THEN bySortOrder(a, b) ELSE byTimestampDesc(a, b)

\* ECMAScript SortCompare: a NaN from the comparator counts as +0
SortCompare(compareFn, a, b) ==
    IF Call(compareFn, a, b) = "NaN" THEN "zero" ELSE Call(compareFn, a, b)

RECURSIVE InsertSorted(_, _, _)
InsertSorted(compareFn, acc, x) ==
    IF acc = <<>> THEN <<x>>
    ELSE IF SortCompare(compareFn, acc[Len(acc)], x) = "positive"
         THEN Append(InsertSorted(compareFn, SubSeq(acc, 1, Len(acc) - 1), x), acc[Len(acc)])
         ELSE Append(acc, x)

RECURSIVE ArraySort(_, _)
\* Array.prototype.sort(compareFn), stable since ES2019
ArraySort(compareFn, arr) ==
    IF arr = <<>> THEN <<>>
    ELSE InsertSorted(compareFn, ArraySort(compareFn, SubSeq(arr, 1, Len(arr) - 1)), arr[Len(arr)])

RECURSIVE SumOf(_, _)
\* arr.reduce((sum, x) => sum + x[field], 0)
SumOf(arr, field) ==
    IF arr = <<>> THEN 0 ELSE SumOf(SubSeq(arr, 1, Len(arr) - 1), field) + arr[Len(arr)][field]

\* entry.kind === 'file' && isVideoFile(entry.name)
isVideoEntry(entry) == entry.kind = "file" /\ isVideoFile(entry.name)

\* the object of videos.push({...}) for one entry of the lesson folder
VideoRecord(entry, dir, courseName, parentDir) ==
    [id           |-> generateVideoId(courseName, dir.name, entry.name),
     name         |-> cleanName(removeExtension(entry.name)),
     filename     |-> entry.name,
     fileHandle   |-> entry,
     duration     |-> getVideoDuration(entry),
     sortOrder    |-> extractNumber(entry.name),
     numberPrefix |-> extractNumberPrefix(entry.name),
     subtitleFile |-> findSubtitleForVideo(parentDir, dir.name, entry.name)]

\* the videos pushed by the loop over dirHandle.values(), in enumeration order
PushedVideos(entries, dir, courseName, parentDir) ==
    [i \in 1..Len(entries) |-> VideoRecord(entries[i], dir, courseName, parentDir)]

\* totalDuration taken from the first video in place of the reduce over the videos
LessonRecordUnsummed(dir, courseName, videos) ==
    [id            |-> generateLessonId(courseName, dir.name),
     name          |-> cleanName(dir.name),
     originalName  |-> dir.name,
     videos        |-> videos,
     totalVideos   |-> Len(videos),
     totalDuration |-> IF Len(videos) > 0 THEN videos[1].duration ELSE 0,
     sortOrder     |-> extractNumber(dir.name),
     numberPrefix  |-> extractNumberPrefix(dir.name),
     thumbnail     |-> IF Len(videos) > 0
                       THEN generateThumbnail(videos[1].fileHandle, videos[1].duration) ELSE ""]

\* the Lesson returned once the videos are sorted
LessonRecord(dir, courseName, videos) ==
    [id            |-> generateLessonId(courseName, dir.name),
     name          |-> cleanName(dir.name),
     originalName  |-> dir.name,
     videos        |-> videos,
     totalVideos   |-> Len(videos),
     totalDuration |-> SumOf(videos, "duration"),
     sortOrder     |-> extractNumber(dir.name),
     numberPrefix  |-> extractNumberPrefix(dir.name),
     thumbnail     |-> IF Len(videos) > 0
                       THEN generateThumbnail(videos[1].fileHandle, videos[1].duration) ELSE ""]

parseLessonFolder(dir, courseName, parentDir) ==
    LessonRecord(dir, courseName,
                 ArraySort("bySortOrder",
                           PushedVideos(SelectSeq(dir.entries, isVideoEntry),
                                        dir, courseName, parentDir)))

\* the test "if (lesson.videos.length > 0)" left out
keepsEveryLesson(lesson) == TRUE

\* "Only add lessons that have videos": if (lesson.videos.length > 0)
hasVideos(lesson) == Len(lesson.videos) > 0

\* entry.kind === 'directory' && !entry.name.endsWith('_subtitles')
isLessonEntry(entry) == entry.kind = "directory" /\ ~endsWith(entry.name, "_subtitles")

\* the lessons parsed by the loop over dirHandle.values(), in enumeration order
ParsedLessons(entries, dirHandle) ==
    [i \in 1..Len(entries) |-> parseLessonFolder(entries[i], dirHandle.name, dirHandle)]

\* the Course returned for the lessons pushed; the totals are accumulated as they are pushed
CourseRecord(dirHandle, pushed, lessons) ==
    [id            |-> generateCourseId(dirHandle.name),
     title         |-> cleanName(dirHandle.name),
     originalName  |-> dirHandle.name,
     lessons       |-> lessons,
     totalLessons  |-> Len(lessons),
     totalVideos   |-> SumOf(pushed, "totalVideos"),
     totalDuration |-> SumOf(pushed, "totalDuration"),
     dirHandle     |-> dirHandle.path]

\* the lessons pushed are sorted in place
SortedCourse(dirHandle, pushed) ==
    CourseRecord(dirHandle, pushed, ArraySort("bySortOrder", pushed))

parseFolderStructure(dirHandle) ==
    SortedCourse(dirHandle,
                 SelectSeq(ParsedLessons(SelectSeq(dirHandle.entries, isLessonEntry), dirHandle),
                           hasVideos))

\* a probe of the parser on a file, with the callback that settles it
Probe(by, file, ready) == [by |-> by, file |-> file.name, exit |-> ProbeExit(file, ready)]

\* a probe whose timer is never set settles by the media events only
SettlesWithoutTimer(exit) == exit # "setTimeout"

\* the promise of a probe settles: each of its callbacks and its catch call resolve
Settles(exit) == exit \in {"catch", "onloadedmetadata", "onseeked", "onerror", "setTimeout"}

\* parseLessonFolder rejects: fileHandle.getFile() of a video entry rejects in the loop,
\* outside any try
LessonRejects(dir) ==
    \E i \in 1..Len(dir.entries) : isVideoEntry(dir.entries[i]) /\ ~dir.entries[i].opens

\* parseFolderStructure rejects: the rejection of parseLessonFolder is not caught
ParseRejects(dirHandle) ==
    \E i \in 1..Len(dirHandle.entries) :
        isLessonEntry(dirHandle.entries[i]) /\ LessonRejects(dirHandle.entries[i])

RECURSIVE DurationUrlsLeft(_)
\* the object URLs left by getVideoDuration over the video entries of a lesson folder, up
\* to the first entry whose getFile() rejects
DurationUrlsLeft(files) ==
    IF files = <<>> \/ ~Head(files).opens THEN << >>
    ELSE UrlsLeft("getVideoDuration", Head(files), "onloadedmetadata")
            \o DurationUrlsLeft(Tail(files))

\* the object URLs left by parseLessonFolder: by the duration probes and, when the loop
\* completes with videos, by the thumbnail probe of the first video
LessonUrlsLeft(dir, lesson) ==
    DurationUrlsLeft(SelectSeq(dir.entries, isVideoEntry))
    \o (IF LessonRejects(dir) \/ Len(lesson.videos) = 0 THEN << >>
        ELSE UrlsLeft("generateThumbnail", lesson.videos[1].fileHandle, "onseeked"))

RECURSIVE ProbeUrlsLeftIn(_, _)
\* the object URLs left by the lesson folders parsed, up to the first that rejects
ProbeUrlsLeftIn(dirs, dirHandle) ==
    IF dirs = <<>> THEN << >>
    ELSE LessonUrlsLeft(Head(dirs), parseLessonFolder(Head(dirs), dirHandle.name, dirHandle))
            \o (IF LessonRejects(Head(dirs)) THEN << >>
                ELSE ProbeUrlsLeftIn(Tail(dirs), dirHandle))

RECURSIVE DurationProbes(_)
\* the getVideoDuration calls of parseLessonFolder over the video entries of a lesson
\* folder, up to the first entry whose getFile() rejects
DurationProbes(files) ==
    IF files = <<>> \/ ~Head(files).opens THEN << >>
    ELSE << Probe("getVideoDuration", Head(files), "onloadedmetadata") >>
            \o DurationProbes(Tail(files))

\* the probes of parseLessonFolder in the order it awaits them: the durations, then the
\* thumbnail of the first video when the loop has completed with videos
LessonProbes(dir, lesson) ==
    DurationProbes(SelectSeq(dir.entries, isVideoEntry))
    \o (IF LessonRejects(dir) \/ Len(lesson.videos) = 0 THEN << >>
        ELSE << Probe("generateThumbnail", lesson.videos[1].fileHandle, "onseeked") >>)

RECURSIVE FolderProbes(_, _)
\* the probes of the lesson folders parsed, up to the first folder that rejects
FolderProbes(dirs, dirHandle) ==
    IF dirs = <<>> THEN << >>
    ELSE LessonProbes(Head(dirs), parseLessonFolder(Head(dirs), dirHandle.name, dirHandle))
            \o (IF LessonRejects(Head(dirs)) THEN << >>
                ELSE FolderProbes(Tail(dirs), dirHandle))

\* the probes parseFolderStructure awaits, one after the other
ProbesOf(dirHandle) == FolderProbes(SelectSeq(dirHandle.entries, isLessonEntry), dirHandle)

\* the object URLs parseFolderStructure has created and not revoked when it settles
ProbeUrlsLeft(dirHandle) ==
    ProbeUrlsLeftIn(SelectSeq(dirHandle.entries, isLessonEntry), dirHandle)

(***************************************************************************)
(* utils/storage.ts: the IndexedDB object stores, each a function from     *)
(* the key (keyPath 'id') to the stored value.                             *)
(***************************************************************************)
EmptyStore == [k \in {} |-> undefined]

\* db.put(store, value)
Put(store, value) == (value.id :> value) @@ store

\* db.delete(store, id)
Delete(store, id) == [k \in DOMAIN store \ {id} |-> store[k]]

\* db.get(store, id)
Get(store, id) == IF id \in DOMAIN store THEN store[id] ELSE undefined

\* (currentTime / duration) * 100 as the fraction num / den; den = 0 is NaN (num = 0) or Infinity
Percentage(currentTime, duration) == [num |-> currentTime * 100, den |-> duration]

saveFolderHandle(store, id, handle, metadata, time) ==
    Put(store, [id |-> id, handle |-> handle, metadata |-> metadata, timestamp |-> time])

deleteFolderHandle(store, id) == Delete(store, id)

\* db.add in place of db.put: an existing record is kept
saveProgressOnce(store, videoId, currentTime, duration, time) ==
    IF videoId \in DOMAIN store THEN store
    ELSE Put(store, [id          |-> videoId,
                     currentTime |-> currentTime,
                     duration    |-> duration,
                     percentage  |-> Percentage(currentTime, duration),
                     lastWatched |-> time])

saveProgress(store, videoId, currentTime, duration, time) ==
    Put(store, [id          |-> videoId,
                currentTime |-> currentTime,
                duration    |-> duration,
                percentage  |-> Percentage(currentTime, duration),
                lastWatched |-> time])

getProgress(store, videoId) == Get(store, videoId)

saveCollection(store, collection, time) ==
    Put(store, [id            |-> collection.id,
                title         |-> collection.title,
                originalName  |-> collection.originalName,
                lessons       |-> collection.lessons,
                totalLessons  |-> collection.totalLessons,
                totalVideos   |-> collection.totalVideos,
                totalDuration |-> collection.totalDuration,
                dirHandle     |-> collection.dirHandle,
                lastAccessed  |-> time])

deleteCollection(store, id) == Delete(store, id)

\* markVideoComplete(videoId, duration): the record saveProgress(videoId, duration, duration) writes
markVideoComplete(store, videoId, duration, time) ==
    saveProgress(store, videoId, duration, duration, time)

\* deleteProgress(videoId): removes the record
deleteProgress(store, videoId) == Delete(store, videoId)

\* clearLastWatched(videoId): lastWatched := 0 on an existing record, the other fields kept
clearLastWatched(store, videoId) ==
    IF videoId \in DOMAIN store
    THEN Put(store, [store[videoId] EXCEPT !.lastWatched = 0])
    ELSE store

(***************************************************************************)
(* IEEE 754 double arithmetic for (completed / total) * 100 and Math.round *)
(* on it.  A positive double is [hi, mid, lo, exp]: its 53-bit mantissa    *)
(* hi * 2^40 + mid * 2^20 + lo with 2^12 <= hi < 2^13 (leading bit 1) and  *)
(* mid, lo < 2^20, and its value mantissa * 2^(exp - 52).                   *)
(***************************************************************************)
\* IEEE 754 binary64: the binary digits of each of the two lower limbs of the mantissa
LimbBits == 20

\* IEEE 754 binary64: the binary digits of the top limb below its leading bit (12 + 20 + 20 = 52)
TopBits == 12

FloatZero == [hi |-> 0, mid |-> 0, lo |-> 0, exp |-> 0]

\* round to nearest, ties to even: half is the first dropped bit, sticky the rest
RoundNearestEven(x, half, sticky) ==
    IF ~(half /\ (sticky \/ (x.lo % 2) = 1)) THEN x
    ELSE IF x.lo + 1 < 2^LimbBits THEN [x EXCEPT !.lo = x.lo + 1]
    ELSE IF x.mid + 1 < 2^LimbBits THEN [x EXCEPT !.lo = 0, !.mid = x.mid + 1]
    ELSE IF x.hi + 1 < 2^(TopBits + 1) THEN [x EXCEPT !.lo = 0, !.mid = 0, !.hi = x.hi + 1]
    ELSE [hi |-> 2^TopBits, mid |-> 0, lo |-> 0, exp |-> x.exp + 1]

\* the double c / n for integers 0 <= c <= n, 0 < n < 2^11, by long division
FloatDiv(c, n) ==
    IF c = 0 THEN FloatZero
    ELSE LET shift == CHOOSE k \in 0..11 : c * (2^k) >= n /\ (k = 0 \/ c * (2^(k - 1)) < n)
             r0    == c * (2^shift) - n
             r1    == (r0 * (2^TopBits)) % n
             r2    == (r1 * (2^LimbBits)) % n
             r3    == (r2 * (2^LimbBits)) % n
         IN  RoundNearestEven([hi  |-> (2^TopBits) + ((r0 * (2^TopBits)) \div n),
                               mid |-> (r1 * (2^LimbBits)) \div n,
                               lo  |-> (r2 * (2^LimbBits)) \div n,
                               exp |-> 0 - shift],
                              2 * r3 >= n, 2 * r3 > n)

\* the double x * k for a double x >= 0 and an integer 0 < k < 2^10
FloatMul(x, k) ==
    IF x.hi = 0 THEN FloatZero
    ELSE LET lo    == x.lo * k
             mid   == x.mid * k + (lo \div (2^LimbBits))
             high  == x.hi * k + (mid \div (2^LimbBits))
             l     == lo % (2^LimbBits)
             m     == mid % (2^LimbBits)
             extra == CHOOSE e \in 0..10 : 2^(TopBits + e) <= high /\ high < 2^(TopBits + e + 1)
             drop  == l % (2^extra)
         IN  RoundNearestEven([hi  |-> high \div (2^extra),
                               mid |-> (high % (2^extra)) * (2^(LimbBits - extra)) + (m \div (2^extra)),
                               lo  |-> (m % (2^extra)) * (2^(LimbBits - extra)) + (l \div (2^extra)),
                               exp |-> x.exp + extra],
                              extra > 0 /\ drop >= 2^(extra - 1),
                              extra > 0 /\ (drop % (2^(extra - 1))) # 0)

\* Math.round(x) for a double 0 <= x < 2^12: the nearest integer, halves up
MathRound(x) ==
    IF x.hi = 0 \/ x.exp < -1 THEN 0
    ELSE IF x.exp = -1 THEN 1
    ELSE (x.hi \div (2^(TopBits - x.exp))) + ((x.hi \div (2^(TopBits - 1 - x.exp))) % 2)

(***************************************************************************)
(* hooks/useProgress.ts over the hook's allProgress map.                   *)
(***************************************************************************)
\* getAllProgress() reduced to a map keyed by item.id
loadAllProgress(store) ==
    [id \in { store[k].id : k \in DOMAIN store } |->
        store[CHOOSE k \in DOMAIN store : store[k].id = id]]

\* progress.percentage >= 95 in place of progress.percentage > 95
PercentageAtLeast(percentage, limit) ==
    IF percentage.den = 0 THEN percentage.num > 0
    ELSE percentage.num >= limit * percentage.den

\* progress.percentage > 95 on the JS number (NaN > 95 is false, Infinity > 95 is true)
PercentageAbove(percentage, limit) ==
    IF percentage.den = 0 THEN percentage.num > 0
    ELSE percentage.num > limit * percentage.den

\* isCompleted without "|| remainingTime < 5"
isCompletedByPercentage(map, id) ==
    IF id \notin DOMAIN map THEN FALSE
    ELSE PercentageAbove(map[id].percentage, 95)

isCompleted(map, id) ==
    IF id \notin DOMAIN map THEN FALSE
    ELSE LET progress == map[id]
             remainingTime == progress.duration - progress.currentTime
         IN  PercentageAbove(progress.percentage, 95) \/ remainingTime < 5

\* Math.round((completed / total) * 100), total > 0
RoundedPercent(completed, total) == MathRound(FloatMul(FloatDiv(completed, total), 100))

\* arr.filter(video => isCompleted(video.id)).length
CompletedCount(map, videos) == Len(SelectSeq(videos, LAMBDA video : isCompleted(map, video.id)))

getLessonProgress(map, lesson) ==
    IF Len(lesson.videos) = 0 THEN 0
    ELSE RoundedPercent(CompletedCount(map, lesson.videos), Len(lesson.videos))

RECURSIVE AllVideos(_)
\* the videos visited by course.lessons.forEach(lesson => lesson.videos.forEach(...))
AllVideos(lessons) ==
    IF lessons = <<>> THEN <<>> ELSE Head(lessons).videos \o AllVideos(Tail(lessons))

getCourseProgress(map, course) ==
    IF course.totalVideos = 0 THEN 0
    ELSE LET totalVideos == Len(AllVideos(course.lessons))
             completedVideos == CompletedCount(map, AllVideos(course.lessons))
         IN  IF totalVideos = 0 THEN 0 ELSE RoundedPercent(completedVideos, totalVideos)

\* the loop left after its first video
deleteProgressFirst(store, videos) ==
    IF videos = <<>> THEN store ELSE deleteProgress(store, Head(videos).id)

RECURSIVE deleteProgressEach(_, _)
\* for (const video of videos) await deleteProgress(video.id)
deleteProgressEach(store, videos) ==
    IF videos = <<>> THEN store
    ELSE deleteProgressEach(deleteProgress(store, Head(videos).id), Tail(videos))

RECURSIVE markVideoCompleteEach(_, _, _)
\* for (const video of videos) await markVideoComplete(video.id, video.duration)
markVideoCompleteEach(store, videos, time) ==
    IF videos = <<>> THEN store
    ELSE markVideoCompleteEach(markVideoComplete(store, Head(videos).id, Head(videos).duration, time),
                               Tail(videos), time)

RECURSIVE clearLastWatchedEach(_, _)
\* for (const video of videos) await clearLastWatched(video.id)
clearLastWatchedEach(store, videos) ==
    IF videos = <<>> THEN store
    ELSE clearLastWatchedEach(clearLastWatched(store, Head(videos).id), Tail(videos))

(***************************************************************************)
(* components/LessonGrid.tsx: the Recent row.                              *)
(***************************************************************************)
\* program constant: .slice(0, 4)
RecentLimit == 4

RECURSIVE MostRecentTimestamp(_, _)
\* the forEach loop of getRecentLessons over the videos of one lesson
MostRecentTimestamp(map, videos) ==
    IF videos = <<>> THEN 0
    ELSE LET before == MostRecentTimestamp(map, SubSeq(videos, 1, Len(videos) - 1))
             id     == videos[Len(videos)].id
         IN  IF id \in DOMAIN map /\ map[id].lastWatched # 0 /\ map[id].lastWatched > before
             THEN map[id].lastWatched ELSE before

\* .filter(item => item.timestamp >= 0)
wasWatchedOrCleared(item) == item.timestamp >= 0

\* .filter(item => item.timestamp > 0)
wasWatched(item) == item.timestamp > 0

getRecentLessons(map, course) ==
    LET lessonsWithTimestamp ==
            [i \in 1..Len(course.lessons) |->
                [lesson    |-> course.lessons[i],
                 timestamp |-> MostRecentTimestamp(map, course.lessons[i].videos)]]
        watched == SelectSeq(lessonsWithTimestamp, wasWatched)
        sorted  == ArraySort("byTimestampDesc", watched)
        sliced  == SubSeq(sorted, 1, IF Len(sorted) < RecentLimit THEN Len(sorted) ELSE RecentLimit)
    IN  [i \in 1..Len(sliced) |-> sliced[i].lesson]

(***************************************************************************)
(* State.                                                                  *)
(***************************************************************************)
VARIABLES
    disk,         \* the directories the picker can hand out
    folders,      \* object store 'folders': course id -> FolderHandleData
    collections,  \* object store 'collections': course id -> Course
    progress,     \* object store 'progress': video id -> VideoProgress
    now,          \* Date.now()
    error,        \* useFileSystem: error
    view,         \* the mounted route: "courses" | "lessons" | "player"
    courseId,     \* route parameter
    lessonId,     \* route parameter
    allProgress,  \* useProgress of the mounted component: allProgress
    loadPending,  \* the mount effect loadAllProgress() has not completed yet
    last,         \* the handler that ran last, its argument and what it returned
    isLoading,    \* useFileSystem: isLoading
    permissionLog,\* what queryPermission and the requestPermission prompts of the last
                  \* useFileSystem call returned
    probing,      \* the directory parseFolderStructure is parsing, the probes of it that
                  \* have not settled yet and what it returns once they have
    currentVideo, \* VideoPlayer: currentVideo?.id
    videoURL,     \* VideoPlayer: videoURL, the src of the <video> element
    position,     \* VideoPlayer: videoRef.current.currentTime
    pendingLoads, \* VideoPlayer: the videos whose loadVideo() has not completed yet
    objectUrls,   \* the object URLs created by URL.createObjectURL and not revoked
    isPlaying,    \* VideoPlayer: isPlaying, the argument of useControls
    showControls, \* useControls: showControls
    timers,       \* the timers of setTimeout that have neither run nor been cleared
    timeoutRef,   \* useControls: timeoutRef.current, 0 for null
    timerCount,   \* the number of setTimeout calls of useControls so far
    idle          \* the milliseconds since handleActivity was called last

\* useFileSystem state besides error
fsVars == <<isLoading, permissionLog, probing>>

\* VideoPlayer state
playerVars == <<currentVideo, videoURL, position, pendingLoads>>

\* useControls state, with the timers of the window
controlVars == <<isPlaying, showControls, timers, timeoutRef, timerCount, idle>>

vars == <<disk, folders, collections, progress, now, error, view, courseId, lessonId,
          allProgress, loadPending, last, fsVars, playerVars, objectUrls, controlVars>>

PermissionStates == {"granted", "denied", "prompt"}

PermissionDeniedMessage == "Permission denied to access folder"

NoLessonsMessage == "No lesson subfolders with videos found. Please select a course folder that contains lesson subfolders with video files."

StoreFailedMessage == "QuotaExceededError"

FileUnreadableMessage == "NotReadableError"

\* parseFolderStructure is not running
NotProbing == [dirHandle |-> "", probes |-> << >>, rejects |-> FALSE, course |-> << >>]

\* no permission call made
NoPermissionCalls == [picker |-> "none", query |-> "none", requests |-> << >>]

\* what showDirectoryPicker rejects with: the user dismissed the picker, or the browser
\* refused to show it
AbortError == [name |-> "AbortError", message |-> "The user aborted a request."]

SecurityError == [name |-> "SecurityError", message |-> "Must be handling a user gesture."]

PickerErrors == {AbortError, SecurityError}

\* a catch of selectFolder that reports every error
ErrorShownAlways(err) == err.message

\* the catch of selectFolder: what setError is given for the error caught
ErrorShown(err) == IF err.name = "AbortError" THEN null ELSE err.message

\* the positions the player reports for a medium of the given duration
Positions(duration) ==
    IF duration >= 96 THEN {10, 95, 96} ELSE { t \in {3, 5} : t <= duration }

\* what is remembered of the handler that ran last: its name, the id it was given, what it
\* returned and, for updateProgress, the position and duration it was given
Handler(op, id, ret) == [op |-> op, id |-> id, ret |-> ret, t |-> 0, d |-> 0]

Range(f) == { f[k] : k \in DOMAIN f }

SeqRange(arr) == { arr[i] : i \in 1..Len(arr) }

\* CourseGrid: the courses loadCourses() keeps
Courses == { c \in Range(collections) : Len(c.lessons) > 0 }

\* LessonGrid / VideoPlayer: the course of the route
Course == collections[courseId]

\* VideoPlayer: currentLesson
CurrentLesson == CHOOSE l \in SeqRange(Course.lessons) : l.id = lessonId

\* a component with its own useProgress() mounts
Mount ==
    /\ allProgress' = EmptyStore
    /\ loadPending' = TRUE

\* VideoPlayer: videoURL null, the element without src
NoUrl == [by |-> "", of |-> ""]

\* the VideoPlayer's own state as useState and useRef initialize it
\* useControls(isPlaying, timeout = 3000)
timeout == 3000

\* the milliseconds between two looks at the clock
TickMs == 500

\* the setTimeout calls of useControls followed
MaxTimers == 6

\* useControls at its first render under a paused player
InitControls ==
    /\ isPlaying = FALSE
    /\ showControls = TRUE
    /\ timers = {}
    /\ timeoutRef = 0
    /\ timerCount = 0
    /\ idle = 0

InitPlayer ==
    /\ currentVideo = null
    /\ videoURL = NoUrl
    /\ position = 0
    /\ pendingLoads = << >>

\* the VideoPlayer mounts, or unmounts and its state is discarded; a loadVideo() still
\* pending runs on, its setVideoURL without effect
MountPlayer ==
    /\ currentVideo' = null
    /\ videoURL' = NoUrl
    /\ position' = 0
    /\ pendingLoads' = [i \in 1..Len(pendingLoads) |-> [pendingLoads[i] EXCEPT !.mounted = FALSE]]

\* VideoPlayer: the video whose medium the <video> element shows, its src being videoURL
Playing == CHOOSE video \in SeqRange(CurrentLesson.videos) : video.filename = videoURL.of

\* VideoPlayer: videoRef.current.duration once the metadata of the medium is loaded
ElementDuration == Playing.fileHandle.duration

\* VideoPlayer: the index of currentVideo in currentLesson.videos
CurrentIndex == CHOOSE i \in 1..Len(CurrentLesson.videos) : CurrentLesson.videos[i].id = currentVideo

RECURSIVE MostRecentFrom(_, _, _, _)
\* the forEach of the initial-video effect from the video at index i on, mostRecent being
\* the index found so far
MostRecentFrom(videos, records, i, mostRecent) ==
    IF i > Len(videos) THEN mostRecent
    ELSE IF /\ videos[i].id \in DOMAIN records
            /\ records[videos[i].id].lastWatched
                  > (IF mostRecent = 0 THEN 0 ELSE records[videos[mostRecent].id].lastWatched)
         THEN MostRecentFrom(videos, records, i + 1, i)
         ELSE MostRecentFrom(videos, records, i + 1, mostRecent)

\* the video the initial-video effect selects: the most recently watched of the lesson,
\* the first one when none was watched
MostRecentVideo(videos, records) ==
    IF MostRecentFrom(videos, records, 1, 0) = 0 THEN videos[1]
    ELSE videos[MostRecentFrom(videos, records, 1, 0)]

\* a loadVideo() of the mounted player that has not passed its first await
PendingLoad(video) == [id |-> video.id, fileHandle |-> video.fileHandle, mounted |-> TRUE]

(***************************************************************************)
(* Initial states.                                                         *)
(***************************************************************************)
MainDisk ==
    { Root("/home/Algo", "Algo",
           << Dir("02-B", << File("01-x.mp4", 100, TRUE) >>),
              File("intro.mp4", 100, TRUE),
              Dir("01-A", << File("2-b.mp4", 8, TRUE), File("1-a.mp4", 100, FALSE) >>),
              Dir("01-A_subtitles", << File("1-a.srt", 0, FALSE) >>) >>),
      Root("/home/Empty", "Empty",
           << Dir("notes", << File("readme.txt", 0, FALSE) >>) >>) }

InitApp ==
    /\ folders = EmptyStore
    /\ collections = EmptyStore
    /\ progress = EmptyStore
    /\ now = 1
    /\ error = null
    /\ view = "courses"
    /\ courseId = ""
    /\ lessonId = ""
    /\ allProgress = EmptyStore
    /\ loadPending = TRUE
    /\ last = Handler("mount", "", "")
    /\ isLoading = FALSE
    /\ permissionLog = NoPermissionCalls
    /\ probing = NotProbing
    /\ InitPlayer
    /\ objectUrls = << >>
    /\ InitControls

Init ==
    /\ disk = MainDisk
    /\ InitApp

\* the longest directory listing of IngestRoots
MaxEntries == 3

\* what a picked directory may list: lesson folders with and without a number prefix,
\* a folder without videos, a caption folder and a loose video file
EntryPool ==
    { Dir("02-B", << File("01-x.mp4", 100, TRUE) >>),
      Dir("01-A", << File("1-a.mp4", 100, FALSE) >>),
      Dir("1-C", << File("c.mp4", 8, TRUE) >>),
      Dir("A", << File("a.MP4", 8, TRUE) >>),
      Dir("B", << File("b.mkv", 100, TRUE) >>),
      Dir("notes", << File("readme.txt", 0, FALSE) >>),
      Dir("01-A_subtitles", << File("1-a.srt", 0, FALSE) >>),
      File("intro.mp4", 100, TRUE) }

\* what a lesson folder may list
FilePool ==
    { File("02-b.mp4", 100, TRUE),
      File("1-a.mp4", 100, FALSE),
      File("01-c.webm", 8, TRUE),
      File("x.mp4", 8, TRUE),
      File("y.MOV", 100, TRUE),
      File("notes.txt", 0, FALSE) }

\* the listings of at most MaxEntries entries of a pool, no name twice, in every order
Listings(pool) ==
    { l \in UNION { [1..n -> pool] : n \in 0..MaxEntries } :
        \A i, j \in 1..Len(l) : i # j => l[i].name # l[j].name }

IngestRoots ==
    { Root("/home/Course", "Course", l) : l \in Listings(EntryPool) }
    \cup { Root("/home/Course", "Course", << Dir("01-A", l) >>) : l \in Listings(FilePool) }

InitIngest ==
    /\ disk \in { {root} : root \in IngestRoots }
    /\ InitApp

\* the longest name of SourceNames
MaxNameLen == 3

\* the characters of SourceNames: digits, separators and a letter
NameChars == {"0", "1", "-", " ", ".", "a"}

RECURSIVE NamesOfLength(_)
\* the strings of exactly n characters of NameChars
NamesOfLength(n) ==
    IF n = 0 THEN {""} ELSE { a \o b : a \in NameChars, b \in NamesOfLength(n - 1) }

\* the folder names of at most MaxNameLen characters a file system allows
SourceNames == UNION { NamesOfLength(n) : n \in 1..MaxNameLen } \ {".", ".."}

\* a picked directory named name with one lesson folder named name holding name.mp4
NamedRoot(name) ==
    Root("/home/" \o name, name, << Dir(name, << File(name \o ".mp4", 8, TRUE) >>) >>)

InitNames ==
    /\ disk \in { {NamedRoot(name)} : name \in SourceNames }
    /\ InitApp

\* what the lesson folder of WalkRoots may list: media files in either case, other files,
\* a file without extension, a file whose name holds U+0130, a nested folder with a media
\* file, and a folder named like a media file
WalkPool ==
    { File("1-a.mp4", 8, TRUE),
      File("b.MKV", 8, TRUE),
      File("notes.txt", 0, FALSE),
      File("mp4", 8, TRUE),
      File(CapitalDottedI \o ".mp4", 8, TRUE),
      Dir("deep", << File("z.mp4", 8, TRUE) >>),
      Dir("d.mp4", << >>) }

\* a picked directory with a loose media file, a caption folder that holds a media file,
\* a lesson folder with any listing of WalkPool, a folder without media and a second lesson
WalkRoots ==
    { Root("/home/Course", "Course",
           << File("intro.mp4", 8, TRUE),
              Dir("01-A_subtitles", << File("1-a.srt", 0, FALSE), File("v.mp4", 8, TRUE) >>),
              Dir("01-A", l),
              Dir("notes", << File("readme.txt", 0, FALSE) >>),
              Dir("02-B", << File("b.mp4", 8, TRUE) >>) >>) : l \in Listings(WalkPool) }

InitWalk ==
    /\ disk \in { {root} : root \in WalkRoots }
    /\ InitApp

\* what the caption folder of CaptionRoots may list: the caption of the first video in
\* either case of the extension and of the name, a caption named after the whole file
\* name, files that are no captions and a folder named like a caption
CaptionPool ==
    { File("01-Intro.srt", 0, FALSE),
      File("01-Intro.SRT", 0, FALSE),
      File("01-intro.srt", 0, FALSE),
      File("01-Intro.mp4.srt", 0, FALSE),
      File("01-Intro.txt", 0, FALSE),
      File("02-Next.vtt", 0, FALSE),
      Dir("02-Next.srt", << >>) }

\* what CaptionRoots list next to the lessons: nothing, a file named like the caption
\* folder, or the caption folder of lesson "01-A" with any listing of CaptionPool
Sidecars ==
    { << >>, << File("01-A_subtitles", 0, FALSE) >> }
    \cup { << Dir("01-A_subtitles", l) >> : l \in Listings(CaptionPool) }

\* a picked directory of two lessons, both with a video "01-Intro.mp4"
CaptionRoots ==
    { Root("/home/Course", "Course",
           << Dir("01-A", << File("01-Intro.mp4", 8, TRUE), File("02-Next.mp4", 8, TRUE) >>),
              Dir("02-B", << File("01-Intro.mp4", 8, TRUE) >>) >> \o sidecars)
      : sidecars \in Sidecars }

InitCaption ==
    /\ disk \in { {root} : root \in CaptionRoots }
    /\ InitApp

\* what the lesson folder of ProbeRoots may list: a media file that decodes, one whose
\* decoding fires error, one that never fires an event, one getFile() rejects, and a file
\* that is no media file
ProbePool ==
    { File("1-a.mp4", 100, TRUE),
      File("2-b.mp4", 100, FALSE),
      StalledFile("3-c.mp4", 100),
      UnreadableFile("4-d.mp4"),
      File("notes.txt", 0, FALSE) }

\* a picked directory with a lesson folder of any listing of ProbePool and a second lesson
ProbeRoots ==
    { Root("/home/Course", "Course",
           << Dir("01-A", l), Dir("02-B", << File("b.mp4", 8, TRUE) >>) >>)
      : l \in Listings(ProbePool) }

InitProbe ==
    /\ disk \in { {root} : root \in ProbeRoots }
    /\ InitApp

\* the state once selectFolder has stored the course parsed from the picked root at time
\* 1 and the progress records of watched have been written since, the last of them at time
Stored(root, course, watched, time) ==
    /\ disk = {root}
    /\ folders = saveFolderHandle(EmptyStore, course.id, root.path,
                                  [title        |-> course.title,
                                   totalLessons |-> course.totalLessons,
                                   totalVideos  |-> course.totalVideos], 1)
    /\ collections = saveCollection(EmptyStore, course, 1)
    /\ progress = watched
    /\ now = time
    /\ error = null
    /\ view = "courses"
    /\ courseId = ""
    /\ lessonId = ""
    /\ allProgress = EmptyStore
    /\ loadPending = TRUE
    /\ last = Handler("selectFolder", course.id, course.id)
    /\ isLoading = FALSE
    /\ permissionLog = [picker |-> "resolved", query |-> "granted", requests |-> << >>]
    /\ probing = NotProbing
    /\ InitPlayer
    /\ objectUrls = << >>
    /\ InitControls

Ingested(root, watched, time) == Stored(root, parseFolderStructure(root), watched, time)

\* the course of MainDisk
MainRoot == CHOOSE root \in MainDisk : root.name = "Algo"

\* the state after selectFolder has ingested MainRoot
InitProgress == Ingested(MainRoot, EmptyStore, 1)

\* a course of one lesson of a long and a short video
PlayerRoot ==
    Root("/home/Play", "Play",
         << Dir("01-A", << File("1-a.mp4", 100, TRUE), File("2-b.mp4", 8, TRUE) >>) >>)

\* the state after selectFolder has ingested PlayerRoot
InitPlayback == Ingested(PlayerRoot, EmptyStore, 1)

\* the page is opened in a new session with the course of PlayerRoot stored by an earlier
\* one: no picker was shown and no permission was queried or requested yet
InitSession ==
    /\ disk = {PlayerRoot}
    /\ folders = saveFolderHandle(EmptyStore, parseFolderStructure(PlayerRoot).id,
                                  PlayerRoot.path,
                                  [title        |-> parseFolderStructure(PlayerRoot).title,
                                   totalLessons |-> parseFolderStructure(PlayerRoot).totalLessons,
                                   totalVideos  |-> parseFolderStructure(PlayerRoot).totalVideos], 1)
    /\ collections = saveCollection(EmptyStore, parseFolderStructure(PlayerRoot), 1)
    /\ progress = EmptyStore
    /\ now = 2
    /\ error = null
    /\ view = "courses"
    /\ courseId = ""
    /\ lessonId = ""
    /\ allProgress = EmptyStore
    /\ loadPending = TRUE
    /\ last = Handler("mount", "", "")
    /\ isLoading = FALSE
    /\ permissionLog = NoPermissionCalls
    /\ probing = NotProbing
    /\ InitPlayer
    /\ objectUrls = << >>
    /\ InitControls

\* directories whose names hold the "-" the ids are joined with, and two directories of
\* the same name at different places
IdRoots ==
    { Root("/home/a", "a",
           << Dir("b-c", << File("d.mp4", 8, TRUE) >>),
              Dir("b", << File("c-d.mp4", 8, TRUE) >>) >>),
      Root("/home/a-b", "a-b", << Dir("c", << File("d.mp4", 8, TRUE) >>) >>),
      Root("/mnt/a", "a", << Dir("x", << File("y.mp4", 8, TRUE) >>) >>),
      Root("/home/e", "e", << Dir("f", << File("g.mp4", 8, TRUE) >>) >>) }

InitIds ==
    /\ disk = IdRoots
    /\ InitApp

\* the number of videos of the lesson of LargeRoot
LessonSize == 40

Digits == << "0", "1", "2", "3", "4", "5", "6", "7", "8", "9" >>

\* a course of one lesson of LessonSize videos "01.mp4", "02.mp4", ...
LargeRoot ==
    Root("/home/Big", "Big",
         << Dir("01-L", [i \in 1..LessonSize |->
                            File(Digits[(i \div 10) + 1] \o Digits[(i % 10) + 1] \o ".mp4",
                                 100, TRUE)]) >>)

InitLarge == Ingested(LargeRoot, EmptyStore, 1)

\* a course of five lessons, the first of them of two videos
RecentRoot ==
    Root("/home/Five", "Five",
         << Dir("01-P", << File("1-a.mp4", 8, TRUE), File("2-b.mp4", 8, TRUE) >>),
            Dir("02-Q", << File("q.mp4", 8, TRUE) >>),
            Dir("03-R", << File("r.mp4", 8, TRUE) >>),
            Dir("04-S", << File("s.mp4", 8, TRUE) >>),
            Dir("05-T", << File("t.mp4", 8, TRUE) >>) >>)

\* the two videos of the first lesson have been played, one at time 1 and one at time 2
InitRecent ==
    Ingested(RecentRoot,
             saveProgress(saveProgress(EmptyStore,
                                       generateVideoId("Five", "01-P", "1-a.mp4"), 3, 8, 1),
                          generateVideoId("Five", "01-P", "2-b.mp4"), 3, 8, 2),
             2)

(***************************************************************************)
(* Actions.                                                                *)
(***************************************************************************)
\* time passes between two event handlers
Tick ==
    /\ now < MaxTime
    /\ now' = now + 1
    /\ UNCHANGED <<disk, folders, collections, progress, error, view, courseId, lessonId,
                   allProgress, loadPending, last>>
    /\ UNCHANGED <<controlVars, fsVars, playerVars, objectUrls>>

\* useProgress: the mount effect loadAllProgress() completes
LoadAllProgress ==
    /\ loadPending
    /\ allProgress' = loadAllProgress(progress)
    /\ loadPending' = FALSE
    /\ last' = Handler("loadAllProgress", "", "")
    /\ UNCHANGED <<disk, folders, collections, progress, now, error, view, courseId, lessonId>>
    /\ UNCHANGED <<controlVars, fsVars, playerVars, objectUrls>>

\* the most prompts the user answers in a row
MaxPrompts == 2

\* what a permission call does: it resolves a PermissionState (a dismissed prompt resolves
\* "prompt", a declined one "denied") or throws
PermissionOutcomes == PermissionStates \cup {"throws"}

\* what the next prompts would be answered, one after the other
PromptAnswers == [1..MaxPrompts -> PermissionOutcomes]

RECURSIVE UntilGranted(_)
\* the prompts answered up to the first that grants
UntilGranted(answers) ==
    IF answers = << >> THEN << >>
    ELSE IF Head(answers) = "granted" THEN << "granted" >>
    ELSE << Head(answers) >> \o UntilGranted(Tail(answers))

\* a verifyFolderAccess that prompts again until the permission is granted
verifyFolderAccessRetrying(query, answers) ==
    IF query = "throws" THEN [ret |-> FALSE, requests |-> << >>]
    ELSE IF query = "granted" THEN [ret |-> TRUE, requests |-> << >>]
    ELSE [ret      |-> \E i \in 1..Len(answers) : answers[i] = "granted",
          requests |-> UntilGranted(answers)]

\* useFileSystem.verifyFolderAccess on a handle whose queryPermission does query and whose
\* prompts would be answered answers: what it returns and the prompts it has issued
verifyFolderAccess(query, answers) ==
    IF query = "throws" THEN [ret |-> FALSE, requests |-> << >>]
    ELSE IF query = "granted" THEN [ret |-> TRUE, requests |-> << >>]
    ELSE [ret      |-> Head(answers) = "granted",
          requests |-> << Head(answers) >>]

\* useFileSystem.verifyFolderAccess(dirHandle) with its outcome
VerifiedFolderAccess(dirHandle, outcome) ==
    /\ permissionLog' = [picker   |-> "none",
                         query    |-> outcome.query,
                         requests |-> outcome.access.requests]
    /\ last' = Handler("verifyFolderAccess", dirHandle.path, outcome.access.ret)

\* useFileSystem.verifyFolderAccess on a directory handle
VerifyFolderAccess ==
    /\ \E dirHandle \in disk :
       \E query \in PermissionOutcomes :
       \E answers \in PromptAnswers :
          VerifiedFolderAccess(dirHandle,
                               [query |-> query, access |-> verifyFolderAccess(query, answers)])
    /\ UNCHANGED <<disk, folders, collections, progress, now, error, view, courseId, lessonId,
                   allProgress, loadPending, isLoading, probing, playerVars, objectUrls,
                   controlVars>>

\* selectFolder from the moment parseFolderStructure has settled on the directory of a
\* path, rejecting or resolving course; a store write may reject
ParsedFolder(path, rejects, course) ==
    IF rejects
       THEN /\ error' = FileUnreadableMessage
            /\ last' = Handler("selectFolder", "", null)
            /\ UNCHANGED <<folders, collections>>
       ELSE IF Len(course.lessons) = 0
       THEN /\ error' = NoLessonsMessage
            /\ last' = Handler("selectFolder", course.id, null)
            /\ UNCHANGED <<folders, collections>>
       ELSE \E failing \in {"none", "saveFolderHandle", "saveCourse"} :
            IF failing = "saveFolderHandle"
            THEN /\ error' = StoreFailedMessage
                 /\ last' = Handler("selectFolder", course.id, null)
                 /\ UNCHANGED <<folders, collections>>
            ELSE /\ folders' = saveFolderHandle(folders, course.id, path,
                                                [title        |-> course.title,
                                                 totalLessons |-> course.totalLessons,
                                                 totalVideos  |-> course.totalVideos], now)
                 /\ IF failing = "saveCourse"
                    THEN /\ error' = StoreFailedMessage
                         /\ last' = Handler("selectFolder", course.id, null)
                         /\ UNCHANGED collections
                    ELSE /\ collections' = saveCollection(collections, course, now)
                         /\ error' = null
                         /\ last' = Handler("selectFolder", course.id, course.id)

\* selectFolder once the picker has resolved dirHandle and, with permission, the parser
\* has settled, course being what it resolves when it does
SelectedFolder(dirHandle, course) ==
    \E permission \in PermissionStates :
    \E newPermission \in (IF permission = "granted" THEN {permission} ELSE PermissionStates) :
        /\ permissionLog' = [picker   |-> "resolved",
                             query    |-> permission,
                             requests |-> IF permission = "granted" THEN << >>
                                          ELSE << newPermission >>]
        /\ IF permission # "granted" /\ newPermission # "granted"
           THEN /\ error' = PermissionDeniedMessage
                /\ last' = Handler("selectFolder", "", null)
                /\ UNCHANGED <<folders, collections, objectUrls>>
           ELSE /\ objectUrls' = objectUrls \o ProbeUrlsLeft(dirHandle)
                /\ ParsedFolder(dirHandle.path, ParseRejects(dirHandle), course)

\* useFileSystem.selectFolder from CourseGrid.handleAddFolder (rendered only when
\* isSupported, the button disabled while isLoading), up to the await of the picker
SelectFolderStart ==
    /\ view = "courses"
    /\ ~isLoading
    /\ isLoading' = TRUE
    /\ error' = null
    /\ last' = Handler("handleAddFolder", "", "")
    /\ UNCHANGED <<disk, folders, collections, progress, now, view, courseId, lessonId,
                   allProgress, loadPending, permissionLog, probing, playerVars, objectUrls,
                   controlVars>>

\* useFileSystem.selectFolder from the moment the picker settles, the probes of the
\* parser taken with it
SelectFolder ==
    /\ view = "courses"
    /\ isLoading
    /\ probing = NotProbing
    /\ isLoading' = FALSE
    /\ \/ \* showDirectoryPicker rejects
          \E err \in PickerErrors :
              /\ error' = ErrorShown(err)
              /\ permissionLog' = [NoPermissionCalls EXCEPT !.picker = err.name]
              /\ last' = Handler("selectFolder", "", null)
              /\ UNCHANGED <<folders, collections, objectUrls>>
       \/ \E dirHandle \in disk : SelectedFolder(dirHandle, parseFolderStructure(dirHandle))
    /\ UNCHANGED <<disk, progress, now, view, courseId, lessonId, allProgress, loadPending,
                   probing, playerVars, controlVars>>

\* useFileSystem.selectFolder, probe by probe: the picker has resolved dirHandle with the
\* permission granted and parseFolderStructure starts
StartProbes ==
    /\ view = "courses"
    /\ isLoading
    /\ probing = NotProbing
    /\ \E dirHandle \in disk :
          /\ probing' = [dirHandle |-> dirHandle.path,
                          probes    |-> ProbesOf(dirHandle),
                          rejects   |-> ParseRejects(dirHandle),
                          course    |-> parseFolderStructure(dirHandle)]
          /\ last' = Handler("parseFolderStructure", dirHandle.path, "")
    /\ permissionLog' = [picker |-> "resolved", query |-> "granted", requests |-> << >>]
    /\ UNCHANGED <<disk, folders, collections, progress, now, error, view, courseId, lessonId,
                   allProgress, loadPending, isLoading, playerVars, objectUrls,
                   controlVars>>

\* the probe the parser awaits settles by one of its callbacks, its object URL revoked
\* or left
ProbeSettles ==
    /\ probing.probes # << >>
    /\ Settles(Head(probing.probes).exit)
    /\ probing' = [probing EXCEPT !.probes = Tail(probing.probes)]
    /\ objectUrls' = objectUrls \o
            (IF Head(probing.probes).exit # "catch" /\ ~Revokes(Head(probing.probes).exit)
             THEN << [by |-> Head(probing.probes).by, of |-> Head(probing.probes).file] >>
             ELSE << >>)
    /\ last' = Handler(Head(probing.probes).by, Head(probing.probes).file,
                       Head(probing.probes).exit)
    /\ UNCHANGED <<disk, folders, collections, progress, now, error, view, courseId, lessonId,
                   allProgress, loadPending, isLoading, permissionLog, playerVars,
                   controlVars>>

\* useFileSystem.selectFolder, probe by probe: every probe has settled, the parser
\* returns or rejects and selectFolder runs to its end
FinishSelectFolder ==
    /\ isLoading
    /\ probing.dirHandle # ""
    /\ probing.probes = << >>
    /\ ParsedFolder(probing.dirHandle, probing.rejects, probing.course)
    /\ isLoading' = FALSE
    /\ probing' = NotProbing
    /\ UNCHANGED <<disk, progress, now, view, courseId, lessonId, allProgress, loadPending,
                   permissionLog, playerVars, objectUrls,
                   controlVars>>

\* CourseGrid.handleOpenCourse: LessonGrid mounts and loads the course
HandleOpenCourse ==
    /\ view = "courses"
    /\ ~isLoading
    /\ \E course \in Courses :
          /\ view' = "lessons"
          /\ courseId' = course.id
          /\ last' = Handler("handleOpenCourse", course.id, "")
    /\ Mount
    /\ UNCHANGED <<disk, folders, collections, progress, now, error, lessonId>>
    /\ UNCHANGED <<controlVars, fsVars, playerVars, objectUrls>>

\* LessonGrid.handleOpenLesson: VideoPlayer mounts and loads course and lesson
HandleOpenLesson ==
    /\ view = "lessons"
    /\ \E lesson \in SeqRange(Course.lessons) :
          /\ view' = "player"
          /\ lessonId' = lesson.id
          /\ last' = Handler("handleOpenLesson", lesson.id, "")
    /\ Mount
    /\ UNCHANGED <<disk, folders, collections, progress, now, error, courseId>>
    /\ MountPlayer
    /\ UNCHANGED <<controlVars, fsVars, objectUrls>>

\* LessonGrid.handleBack: navigate('/'), CourseGrid mounts
HandleBack ==
    /\ view = "lessons"
    /\ view' = "courses"
    /\ courseId' = ""
    /\ last' = Handler("handleBack", "", "")
    /\ Mount
    /\ UNCHANGED <<disk, folders, collections, progress, now, error, lessonId>>
    /\ UNCHANGED <<controlVars, fsVars, playerVars, objectUrls>>

\* VideoPlayer, the course button: navigate(`/course/${courseId}`), LessonGrid mounts
NavigateToCourse ==
    /\ view = "player"
    /\ view' = "lessons"
    /\ lessonId' = ""
    /\ last' = Handler("navigate", courseId, "")
    /\ Mount
    /\ UNCHANGED <<disk, folders, collections, progress, now, error, courseId>>
    /\ MountPlayer
    /\ UNCHANGED <<controlVars, fsVars, objectUrls>>

\* VideoPlayer, the home button: navigate('/'), CourseGrid mounts
NavigateHome ==
    /\ view = "player"
    /\ view' = "courses"
    /\ courseId' = ""
    /\ lessonId' = ""
    /\ last' = Handler("navigate", "", "")
    /\ Mount
    /\ UNCHANGED <<disk, folders, collections, progress, now, error>>
    /\ MountPlayer
    /\ UNCHANGED <<controlVars, fsVars, objectUrls>>

\* useProgress.updateProgress(currentVideo.id, videoRef.currentTime, videoRef.duration)
\* from the VideoPlayer while the medium plays; the hook stamps its own copy after the write
UpdateProgress ==
    /\ view = "player"
    /\ \E video \in SeqRange(CurrentLesson.videos) :
          /\ video.fileHandle.decodes
          /\ \E currentTime \in Positions(video.fileHandle.duration),
                after \in { t \in {now, now + 1} : t <= MaxTime } :
                /\ progress' = saveProgress(progress, video.id, currentTime,
                                            video.fileHandle.duration, now)
                /\ allProgress' = Put(allProgress,
                                      [id          |-> video.id,
                                       currentTime |-> currentTime,
                                       duration    |-> video.fileHandle.duration,
                                       percentage  |-> Percentage(currentTime, video.fileHandle.duration),
                                       lastWatched |-> after])
                /\ now' = after
                /\ last' = [op |-> "updateProgress", id |-> video.id, ret |-> "",
                            t |-> currentTime, d |-> video.fileHandle.duration]
    /\ UNCHANGED <<disk, folders, collections, error, view, courseId, lessonId, loadPending>>
    /\ UNCHANGED <<controlVars, fsVars, playerVars, objectUrls>>

\* VideoPlayer.handleMarkVideoComplete(video), confirmed
MarkVideoComplete(video) ==
    /\ progress' = markVideoComplete(progress, video.id, video.duration, now)
    /\ last' = Handler("handleMarkVideoComplete", video.id, "")
    /\ allProgress' = loadAllProgress(progress')
    /\ UNCHANGED <<disk, folders, collections, now, error, view, courseId, lessonId, loadPending>>
    /\ UNCHANGED <<controlVars, fsVars, playerVars, objectUrls>>

\* the Mark Complete entry of any video of the sidebar
HandleMarkVideoComplete ==
    /\ view = "player"
    /\ \E video \in SeqRange(CurrentLesson.videos) : MarkVideoComplete(video)

\* the Mark Complete entry of the first video of the sidebar that has no record yet: the
\* user works down the list
HandleMarkNextVideoComplete ==
    /\ view = "player"
    /\ \E i \in 1..Len(CurrentLesson.videos) :
          /\ CurrentLesson.videos[i].id \notin DOMAIN progress
          /\ \A j \in 1..(i - 1) : CurrentLesson.videos[j].id \in DOMAIN progress
          /\ MarkVideoComplete(CurrentLesson.videos[i])

\* VideoPlayer.handleResetVideoProgress, confirmed
HandleResetVideoProgress ==
    /\ view = "player"
    /\ \E video \in SeqRange(CurrentLesson.videos) :
          /\ progress' = deleteProgress(progress, video.id)
          /\ last' = Handler("handleResetVideoProgress", video.id, "")
    /\ allProgress' = loadAllProgress(progress')
    /\ UNCHANGED <<disk, folders, collections, now, error, view, courseId, lessonId, loadPending>>
    /\ UNCHANGED <<controlVars, fsVars, playerVars, objectUrls>>

\* useProgress.markLessonComplete from the LessonGrid menu (offered while progress !== 100)
MarkLessonComplete ==
    /\ view = "lessons"
    /\ \E lesson \in SeqRange(Course.lessons) :
          /\ getLessonProgress(allProgress, lesson) # 100
          /\ progress' = markVideoCompleteEach(progress, lesson.videos, now)
          /\ last' = Handler("markLessonComplete", lesson.id, "")
    /\ allProgress' = loadAllProgress(progress')
    /\ UNCHANGED <<disk, folders, collections, now, error, view, courseId, lessonId, loadPending>>
    /\ UNCHANGED <<controlVars, fsVars, playerVars, objectUrls>>

\* useProgress.resetLessonProgress from the LessonGrid menu (offered while progress !== 100)
ResetLessonProgress ==
    /\ view = "lessons"
    /\ \E lesson \in SeqRange(Course.lessons) :
          /\ getLessonProgress(allProgress, lesson) # 100
          /\ progress' = deleteProgressEach(progress, lesson.videos)
          /\ last' = Handler("resetLessonProgress", lesson.id, "")
    /\ allProgress' = loadAllProgress(progress')
    /\ UNCHANGED <<disk, folders, collections, now, error, view, courseId, lessonId, loadPending>>
    /\ UNCHANGED <<controlVars, fsVars, playerVars, objectUrls>>

\* useProgress.removeFromRecents from a card of the Recent row
RemoveFromRecents ==
    /\ view = "lessons"
    /\ \E lesson \in SeqRange(getRecentLessons(allProgress, Course)) :
          /\ progress' = clearLastWatchedEach(progress, lesson.videos)
          /\ last' = Handler("removeFromRecents", lesson.id, "")
    /\ allProgress' = loadAllProgress(progress')
    /\ UNCHANGED <<disk, folders, collections, now, error, view, courseId, lessonId, loadPending>>
    /\ UNCHANGED <<controlVars, fsVars, playerVars, objectUrls>>

\* useProgress.markCourseComplete from the CourseGrid menu
MarkCourseComplete ==
    /\ view = "courses"
    /\ \E course \in Courses :
          /\ progress' = markVideoCompleteEach(progress, AllVideos(course.lessons), now)
          /\ last' = Handler("markCourseComplete", course.id, "")
    /\ allProgress' = loadAllProgress(progress')
    /\ UNCHANGED <<disk, folders, collections, now, error, view, courseId, lessonId, loadPending>>
    /\ UNCHANGED <<controlVars, fsVars, playerVars, objectUrls>>

\* useProgress.resetCourseProgress from the CourseGrid menu
ResetCourseProgress ==
    /\ view = "courses"
    /\ \E course \in Courses :
          /\ progress' = deleteProgressEach(progress, AllVideos(course.lessons))
          /\ last' = Handler("resetCourseProgress", course.id, "")
    /\ allProgress' = loadAllProgress(progress')
    /\ UNCHANGED <<disk, folders, collections, now, error, view, courseId, lessonId, loadPending>>
    /\ UNCHANGED <<controlVars, fsVars, playerVars, objectUrls>>

\* CourseGrid.handleDeleteCourse, confirmed
HandleDeleteCourse ==
    /\ view = "courses"
    /\ \E course \in Courses :
          /\ progress' = deleteProgressEach(progress, AllVideos(course.lessons))
          /\ collections' = deleteCollection(collections, course.id)
          /\ folders' = deleteFolderHandle(folders, course.id)
          /\ last' = Handler("handleDeleteCourse", course.id, "")
    /\ allProgress' = loadAllProgress(progress')
    /\ UNCHANGED <<disk, now, error, view, courseId, lessonId, loadPending>>
    /\ UNCHANGED <<controlVars, fsVars, playerVars, objectUrls>>

\* the most loadVideo() calls pending at once
MaxPending == 2

\* the most object URLs held at once
MaxUrls == 2

\* useProgress.updateProgress(id, currentTime, duration) called by the handler op of the
\* player on the store as it is then; the hook stamps its own copy after the write
UpdatedProgress(op, id, currentTime, duration, store) ==
    \E after \in { t \in {now, now + 1} : t <= MaxTime } :
        /\ progress' = saveProgress(store, id, currentTime, duration, now)
        /\ allProgress' = Put(allProgress,
                              [id          |-> id,
                               currentTime |-> currentTime,
                               duration    |-> duration,
                               percentage  |-> Percentage(currentTime, duration),
                               lastWatched |-> after])
        /\ now' = after
        /\ last' = [op |-> op, id |-> id, ret |-> "", t |-> currentTime, d |-> duration]

\* setCurrentVideo(video) and the load-video effect it triggers when the video changes
SwitchTo(video) ==
    /\ currentVideo' = video.id
    /\ pendingLoads' = IF video.id = currentVideo THEN pendingLoads
                       ELSE Append(pendingLoads, PendingLoad(video))
    /\ UNCHANGED <<videoURL, position>>

\* VideoPlayer, the initial-video effect: the lesson is loaded and no video is set yet
SetInitialVideo ==
    /\ view = "player"
    /\ currentVideo = null
    /\ Len(pendingLoads) < MaxPending
    /\ SwitchTo(MostRecentVideo(CurrentLesson.videos, allProgress))
    /\ last' = Handler("setCurrentVideo", currentVideo', "")
    /\ UNCHANGED <<disk, folders, collections, progress, now, error, view, courseId, lessonId,
                   allProgress, loadPending, fsVars, objectUrls,
                   controlVars>>

\* VideoPlayer.loadVideo() of the oldest pending load, from getVideoURL on. When getFile()
\* resolves the object URL is created, becomes the src of the element, the metadata of
\* the medium load and the stored position is resumed; when it rejects (the permission of
\* the stored handle is not granted, or the file is gone) getVideoURL returns null and
\* nothing changes
LoadVideo ==
    /\ pendingLoads # << >>
    /\ Len(objectUrls) < MaxUrls
    /\ pendingLoads' = Tail(pendingLoads)
    /\ \E resolves \in BOOLEAN :
          IF resolves
          THEN /\ objectUrls' = Append(objectUrls,
                                       ObjectUrl("getVideoURL", Head(pendingLoads).fileHandle))
               /\ IF Head(pendingLoads).mounted
                  THEN /\ videoURL' = ObjectUrl("getVideoURL", Head(pendingLoads).fileHandle)
                       /\ position' = IF Head(pendingLoads).id \notin DOMAIN progress THEN 0
                                      ELSE getProgress(progress, Head(pendingLoads).id).currentTime
                  ELSE UNCHANGED <<videoURL, position>>
               /\ last' = Handler("loadVideo", Head(pendingLoads).id, "")
          ELSE /\ last' = Handler("loadVideo", Head(pendingLoads).id, null)
               /\ UNCHANGED <<objectUrls, videoURL, position>>
    /\ UNCHANGED <<disk, folders, collections, progress, now, error, view, courseId, lessonId,
                   allProgress, loadPending, fsVars, controlVars, currentVideo>>

\* the medium plays or the user seeks: videoRef.current.currentTime changes
Playhead ==
    /\ view = "player"
    /\ videoURL # NoUrl
    /\ \E t \in Positions(ElementDuration) \cup {ElementDuration} :
          /\ t # position
          /\ position' = t
    /\ last' = Handler("handleTimeUpdate", Playing.id, "")
    /\ UNCHANGED <<disk, folders, collections, progress, now, error, view, courseId, lessonId,
                   allProgress, loadPending, fsVars, controlVars, currentVideo, videoURL, pendingLoads,
                   objectUrls>>

\* VideoPlayer, the callback of the progress interval while the medium plays
IntervalUpdateProgress ==
    /\ view = "player"
    /\ videoURL # NoUrl
    /\ currentVideo # null
    /\ UpdatedProgress("updateProgress", currentVideo, position, ElementDuration, progress)
    /\ UNCHANGED <<disk, folders, collections, error, view, courseId, lessonId, loadPending,
                   fsVars, playerVars, objectUrls,
                   controlVars>>

\* VideoPlayer.handleSelectVideo(video) called by op, the element holding a medium
SelectVideo(op, video) ==
    /\ view = "player"
    /\ videoURL # NoUrl
    /\ currentVideo # null
    /\ video.id # currentVideo => Len(pendingLoads) < MaxPending
    /\ UpdatedProgress(op, currentVideo, position, ElementDuration, progress)
    /\ SwitchTo(video)
    /\ UNCHANGED <<disk, folders, collections, error, view, courseId, lessonId, loadPending,
                   fsVars, controlVars, objectUrls>>

\* VideoPlayer.handleSelectVideo from an entry of the sidebar
HandleSelectVideo ==
    /\ view = "player"
    /\ \E video \in SeqRange(CurrentLesson.videos) : SelectVideo("handleSelectVideo", video)

\* VideoPlayer.playNextVideo from the Next button
PlayNextVideo ==
    /\ view = "player"
    /\ currentVideo # null
    /\ CurrentIndex < Len(CurrentLesson.videos)
    /\ SelectVideo("playNextVideo", CurrentLesson.videos[CurrentIndex + 1])

\* VideoPlayer.playPreviousVideo from the Previous button
PlayPreviousVideo ==
    /\ view = "player"
    /\ currentVideo # null
    /\ CurrentIndex > 1
    /\ SelectVideo("playPreviousVideo", CurrentLesson.videos[CurrentIndex - 1])

\* VideoPlayer.handleEnded: the medium of the element has played to its end; with the
\* autoPlay preference playNextVideo follows
HandleEnded ==
    /\ view = "player"
    /\ videoURL # NoUrl
    /\ currentVideo # null
    /\ position = ElementDuration
    /\ \E autoPlay \in BOOLEAN :
          IF autoPlay /\ CurrentIndex < Len(CurrentLesson.videos)
          THEN /\ Len(pendingLoads) < MaxPending
               /\ UpdatedProgress("handleEnded", currentVideo, position, ElementDuration,
                                  saveProgress(progress, currentVideo, ElementDuration,
                                               ElementDuration, now))
               /\ SwitchTo(CurrentLesson.videos[CurrentIndex + 1])
          ELSE /\ UpdatedProgress("handleEnded", currentVideo, ElementDuration,
                                  ElementDuration, progress)
               /\ UNCHANGED playerVars
    /\ UNCHANGED <<disk, folders, collections, error, view, courseId, lessonId, loadPending,
                   fsVars, controlVars, objectUrls>>

\* everything but the state of useControls and the handler that ran last
appVars == <<disk, folders, collections, progress, now, error, view, courseId, lessonId,
             allProgress, loadPending, fsVars, playerVars, objectUrls>>

\* the hook without its clearTimeout calls
neverCleared(pending, ref) == pending

\* if (timeoutRef.current) clearTimeout(timeoutRef.current): the timer of that id, if it
\* is still pending, will not run
clearTimeout(pending, ref) ==
    IF ref # 0 THEN { timer \in pending : timer.id # ref } ELSE pending

\* the body of handleActivity built by a render with isPlaying = playing
Activity(playing) ==
    /\ showControls' = TRUE
    /\ IF playing
       THEN /\ timerCount < MaxTimers
            /\ timerCount' = timerCount + 1
            /\ timeoutRef' = timerCount + 1
            /\ timers' = clearTimeout(timers, timeoutRef)
                             \cup {[id |-> timerCount + 1, delay |-> timeout]}
       ELSE /\ timers' = clearTimeout(timers, timeoutRef)
            /\ UNCHANGED <<timeoutRef, timerCount>>
    /\ idle' = 0

\* onMouseMove={handleActivity}: the callback of the last render
HandleActivity ==
    /\ Activity(isPlaying)
    /\ last' = Handler("handleActivity", "", "")
    /\ UNCHANGED <<appVars, isPlaying>>

\* setIsPlaying(playing) from onPlay, onPause or togglePlayPause, the render and the
\* effect of useControls on [isPlaying, handleActivity] that follows it
SetIsPlaying ==
    /\ \E playing \in BOOLEAN :
          /\ playing # isPlaying
          /\ isPlaying' = playing
          /\ IF ~playing
             THEN /\ showControls' = TRUE
                  /\ timers' = clearTimeout(timers, timeoutRef)
                  /\ UNCHANGED <<timeoutRef, timerCount, idle>>
             ELSE Activity(playing)
          /\ last' = Handler("setIsPlaying", "", playing)
    /\ UNCHANGED appVars

\* a pending timer whose delay has passed runs its callback: setShowControls(false)
TimerFires ==
    /\ \E timer \in timers :
          /\ timer.delay <= 0
          /\ timers' = timers \ {timer}
          /\ last' = Handler("setTimeout", "", timer.id)
    /\ showControls' = FALSE
    /\ UNCHANGED <<appVars, isPlaying, timeoutRef, timerCount, idle>>

\* TickMs milliseconds pass
TimePasses ==
    /\ idle <= timeout
    /\ idle' = idle + TickMs
    /\ timers' = { [timer EXCEPT !.delay = timer.delay - TickMs] : timer \in timers }
    /\ last' = Handler("tick", "", "")
    /\ UNCHANGED <<appVars, isPlaying, showControls, timeoutRef, timerCount>>

\* the player with the context menu of its sidebar
NextMarking ==
    \/ LoadAllProgress
    \/ HandleOpenCourse
    \/ HandleOpenLesson
    \/ SetInitialVideo
    \/ LoadVideo
    \/ Playhead
    \/ IntervalUpdateProgress
    \/ HandleSelectVideo
    \/ HandleMarkVideoComplete
    \/ HandleResetVideoProgress

\* adding, watching and removing courses
NextRemoval ==
    \/ SelectFolderStart
    \/ SelectFolder
    \/ HandleDeleteCourse
    \/ LoadAllProgress
    \/ HandleOpenCourse
    \/ HandleOpenLesson
    \/ HandleMarkVideoComplete
    \/ NavigateHome

\* the controls of the player
NextControls ==
    \/ HandleActivity
    \/ SetIsPlaying
    \/ TimerFires
    \/ TimePasses

\* ingestion and removal of courses
NextIngest ==
    \/ SelectFolderStart
    \/ SelectFolder
    \/ HandleDeleteCourse

\* ingestion probe by probe
NextProbes ==
    \/ SelectFolderStart
    \/ StartProbes
    \/ ProbeSettles
    \/ FinishSelectFolder

\* the folder picker and the permission check of the stored folders
NextAccess ==
    \/ NextIngest
    \/ VerifyFolderAccess

\* navigation and the player over the lesson of PlayerRoot
NextPlayer ==
    \/ LoadAllProgress
    \/ HandleOpenCourse
    \/ HandleOpenLesson
    \/ HandleBack
    \/ NavigateToCourse
    \/ NavigateHome
    \/ SetInitialVideo
    \/ LoadVideo
    \/ Playhead
    \/ IntervalUpdateProgress
    \/ HandleSelectVideo
    \/ PlayNextVideo
    \/ PlayPreviousVideo
    \/ HandleEnded

\* navigation and the progress engine over the ingested courses
NextProgress ==
    \/ Tick
    \/ LoadAllProgress
    \/ HandleOpenCourse
    \/ HandleOpenLesson
    \/ HandleBack
    \/ NavigateToCourse
    \/ NavigateHome
    \/ UpdateProgress
    \/ HandleMarkVideoComplete
    \/ HandleResetVideoProgress
    \/ MarkLessonComplete
    \/ ResetLessonProgress
    \/ RemoveFromRecents
    \/ MarkCourseComplete
    \/ ResetCourseProgress

Next ==
    \/ NextAccess
    \/ NextControls
    \/ NextProbes
    \/ NextProgress
    \/ NextPlayer

\* the player over one long lesson, its videos marked complete from the top
NextLarge ==
    \/ LoadAllProgress
    \/ HandleOpenCourse
    \/ HandleOpenLesson
    \/ HandleBack
    \/ NavigateToCourse
    \/ NavigateHome
    \/ HandleMarkNextVideoComplete

\* the lesson grid and its Recent row
NextRecent ==
    \/ Tick
    \/ LoadAllProgress
    \/ HandleOpenCourse
    \/ HandleBack
    \/ MarkLessonComplete
    \/ ResetLessonProgress
    \/ RemoveFromRecents

\* the whole application from an empty database
Spec == Init /\ [][Next]_vars

\* useFileSystem over MainDisk from an empty database
SpecAccess == Init /\ [][NextAccess]_vars

\* the player once the course of PlayerRoot has been ingested
SpecPlayer == InitPlayback /\ [][NextPlayer]_vars

\* the player in a session that finds the course of PlayerRoot stored
SpecSession == InitSession /\ [][NextPlayer]_vars

\* ingestion of the directories of IdRoots, one after the other
SpecIds == InitIds /\ [][NextIngest]_vars

\* ingestion probe by probe of a tree whose lesson folder lists files the probes fail
\* on: the event loop runs every callback and timer that is due, and the promise chain of
\* selectFolder continues once the parser has settled
SpecTimeout ==
    /\ InitProbe
    /\ [][NextProbes]_vars
    /\ WF_vars(ProbeSettles)
    /\ WF_vars(FinishSelectFolder)

\* marking and resetting videos in the player while it plays
SpecMarking == InitPlayback /\ [][NextMarking]_vars

\* courses of IdRoots added, marked as watched and removed, from an empty database
SpecRemoval == InitIds /\ [][NextRemoval]_vars

\* useControls under a player that plays and pauses
SpecControls == InitPlayback /\ [][NextControls]_vars

\* ingestion of a tree named by every name of SourceNames
SpecNames == InitNames /\ [][NextIngest]_vars

\* ingestion of a tree whose lesson folder lists files and folders of every kind
SpecWalk == InitWalk /\ [][NextIngest]_vars

\* ingestion of a tree with and without a caption folder
SpecCaption == InitCaption /\ [][NextIngest]_vars

\* ingestion of a tree whose lesson folder lists files the probes fail on
SpecProbe == InitProbe /\ [][NextIngest]_vars

\* ingestion of every tree of IngestRoots from an empty database
SpecIngest == InitIngest /\ [][NextIngest]_vars

\* the aggregates of a lesson of LessonSize videos
SpecLarge == InitLarge /\ [][NextLarge]_vars

\* the Recent row of a course of five lessons
SpecRecent == InitRecent /\ [][NextRecent]_vars

\* the progress engine once the course of MainDisk has been ingested
SpecProgress == InitProgress /\ [][NextProgress]_vars

(***************************************************************************)
(* Properties.                                                             *)
(***************************************************************************)
\* the ids of the videos of the stored courses and of the progress records
VideoIds ==
    UNION { { video.id : video \in SeqRange(AllVideos(course.lessons)) } : course \in Courses }
    \cup DOMAIN progress \cup DOMAIN allProgress

\* fractionWatched > 0.95 OR durationSeconds - positionSeconds < 5 on a progress record,
\* the fraction being position / duration as a real number (x/0 is +Infinity for x > 0
\* and 0/0 compares false)
CompletenessPredicate(record) ==
    \/ IF record.duration = 0 THEN record.currentTime > 0
       ELSE 100 * record.currentTime > 95 * record.duration
    \/ record.duration - record.currentTime < 5

ExactRound(completed, total) == ((200 * completed) + total) \div (2 * total)

\* the aggregate the documents define over a list of videos
ExactAggregate(videos) ==
    IF Len(videos) = 0 THEN 0
    ELSE ExactRound(Cardinality({ i \in 1..Len(videos) : isCompleted(allProgress, videos[i].id) }),
                    Len(videos))

\* C2: for every lesson and every course and every set of progress records,
\* getLessonProgress and getCourseProgress equal round(100 * completed / total) over the
\* videos of the lesson, respectively of all lessons of the course, completed counting the
\* videos isCompleted holds for; the value is an integer in 0..100 and 0 without videos.
C2_Aggregate ==
    \A course \in Range(collections) :
        /\ getCourseProgress(allProgress, course) \in 0..100
        /\ getCourseProgress(allProgress, course) = ExactAggregate(AllVideos(course.lessons))
        /\ \A lesson \in SeqRange(course.lessons) :
              /\ getLessonProgress(allProgress, lesson) \in 0..100
              /\ getLessonProgress(allProgress, lesson) = ExactAggregate(lesson.videos)

\* the subdirectories of a picked root that make a lesson: not a caption folder, and
\* listing at least one file with a video extension
UsableSections(root) ==
    { i \in 1..Len(root.entries) :
        /\ root.entries[i].kind = "directory"
        /\ ~endsWith(root.entries[i].name, "_subtitles")
        /\ \E j \in 1..Len(root.entries[i].entries) :
              /\ root.entries[i].entries[j].kind = "file"
              /\ isVideoFile(root.entries[i].entries[j].name) }

C4_Atomic ==
    [][ last'.op = "selectFolder"
        => \/ /\ last'.ret # null
              /\ last'.id \in DOMAIN folders'
              /\ last'.id \in DOMAIN collections'
           \/ /\ last'.ret = null
              /\ folders' = folders
              /\ collections' = collections ]_vars

\* C5: updateProgress(id, t, d) leaves exactly one record stored for id, holding position
\* t, duration d and the current time as lastWatched; every other record is untouched; a
\* second call with the same arguments changes nothing of the record but lastWatched.
C5_Record ==
    [][ ( /\ last'.op = "updateProgress"
          /\ <<progress, allProgress, last>>' # <<progress, allProgress, last>> )
        => ( /\ last'.id \in DOMAIN progress'
             /\ progress'[last'.id].id = last'.id
             /\ progress'[last'.id].currentTime = last'.t
             /\ progress'[last'.id].duration = last'.d
             /\ progress'[last'.id].lastWatched = now
             /\ getProgress(progress', last'.id) = progress'[last'.id]
             /\ DOMAIN progress' = DOMAIN progress \cup {last'.id}
             /\ \A other \in DOMAIN progress \ {last'.id} : progress'[other] = progress[other]
             /\ ( /\ last'.id \in DOMAIN progress
                  /\ progress[last'.id].currentTime = last'.t
                  /\ progress[last'.id].duration = last'.d )
                => [progress'[last'.id] EXCEPT !.lastWatched = 0]
                     = [progress[last'.id] EXCEPT !.lastWatched = 0]
             /\ last'.id \in DOMAIN allProgress'
             /\ allProgress'[last'.id].currentTime = last'.t
             /\ allProgress'[last'.id].duration = last'.d ) ]_vars

\* updateProgress has overwritten, after time 1, the record of one video next to the
\* record of another
C5_Witness ==
    /\ last.op = "updateProgress"
    /\ last.id \in DOMAIN progress
    /\ progress[last.id].currentTime = last.t
    /\ progress[last.id].lastWatched > 1
    /\ \E other \in DOMAIN progress : other # last.id

\* the lesson of the open course a LessonGrid handler was given
LessonOf(id) == CHOOSE lesson \in SeqRange(Course.lessons) : lesson.id = id

\* the ids of the videos of a lesson
LessonVideoIds(lesson) == { video.id : video \in SeqRange(lesson.videos) }

\* a step of a handler that writes progress records, told from a Tick that follows it
Wrote(op) == last'.op = op /\ <<progress, last>>' # <<progress, last>>

\* C6: removeFromRecents(lesson) sets lastWatched to 0 on every record of the lesson and
\* changes no other field and no other record (a record (10, 100) keeps position 10);
\* afterwards the lesson is not in the recent list and its aggregate is what it was.
C6_ClearRecency ==
    [][ Wrote("removeFromRecents")
        => LET lesson == LessonOf(last'.id)
           IN  /\ DOMAIN progress' = DOMAIN progress
               /\ \A id \in DOMAIN progress :
                     progress'[id] = IF id \in LessonVideoIds(lesson)
                                     THEN [progress[id] EXCEPT !.lastWatched = 0]
                                     ELSE progress[id]
               /\ \A recent \in SeqRange(getRecentLessons(allProgress', Course)) :
                     recent.id # lesson.id
               /\ getLessonProgress(allProgress', lesson) = getLessonProgress(allProgress, lesson)
               /\ \A id \in LessonVideoIds(lesson) :
                     isCompleted(allProgress', id) <=> isCompleted(allProgress, id) ]_vars

\* removeFromRecents has run on the lesson of a record (10, 100), which now has
\* lastWatched 0, and the lesson is gone from the recent list
C6_Witness ==
    /\ last.op = "removeFromRecents"
    /\ view = "lessons"
    /\ \E id \in LessonVideoIds(LessonOf(last.id)) :
          /\ id \in DOMAIN progress
          /\ progress[id].currentTime = 10 /\ progress[id].duration = 100
          /\ progress[id].lastWatched = 0
    /\ \A recent \in SeqRange(getRecentLessons(allProgress, Course)) : recent.id # last.id

\* the video of the open lesson a VideoPlayer handler was given
VideoOf(id) == CHOOSE video \in SeqRange(CurrentLesson.videos) : video.id = id

\* the course a CourseGrid handler was given
CourseOf(id) == CHOOSE course \in Range(collections) : course.id = id

\* C7: handleMarkVideoComplete(video) writes the record updateProgress(id, d, d) would
\* write, d the video's duration, and the video is complete for every d >= 0, d = 0
\* included; after markLessonComplete the lesson's aggregate is 100 and after
\* markCourseComplete the course's aggregate is 100.
C7_MarkComplete ==
    [][ /\ Wrote("handleMarkVideoComplete")
          => LET video == VideoOf(last'.id)
             IN  /\ progress' = saveProgress(progress, video.id, video.duration, video.duration, now)
                 /\ video.duration >= 0
                 /\ isCompleted(allProgress', video.id)
        /\ Wrote("markLessonComplete")
          => LET lesson == LessonOf(last'.id)
             IN  /\ \A id \in LessonVideoIds(lesson) : isCompleted(allProgress', id)
                 /\ getLessonProgress(allProgress', lesson) = 100
        /\ Wrote("markCourseComplete")
          => LET course == CourseOf(last'.id)
             IN  /\ getCourseProgress(allProgress', course) = 100
                 /\ \A lesson \in SeqRange(course.lessons) :
                       getLessonProgress(allProgress', lesson) = 100 ]_vars

\* handleMarkVideoComplete has run on a video of duration 0 and the video is complete
C7_Witness ==
    /\ last.op = "handleMarkVideoComplete"
    /\ view = "player"
    /\ VideoOf(last.id).duration = 0
    /\ progress[last.id].currentTime = 0 /\ progress[last.id].duration = 0
    /\ isCompleted(allProgress, last.id)

\* C8: handleResetVideoProgress(video) deletes the video's record, so it has no record,
\* no resume position and is not complete; resetLessonProgress and resetCourseProgress
\* delete the record of every video below, so the aggregate is 0 and the progress map
\* holds none of their ids.
C8_Clear ==
    [][ /\ Wrote("handleResetVideoProgress")
          => /\ last'.id \notin DOMAIN progress'
             /\ getProgress(progress', last'.id) = undefined
             /\ last'.id \notin DOMAIN allProgress'
             /\ ~isCompleted(allProgress', last'.id)
             /\ \A other \in DOMAIN progress \ {last'.id} :
                   other \in DOMAIN progress' /\ progress'[other] = progress[other]
        /\ Wrote("resetLessonProgress")
          => LET lesson == LessonOf(last'.id)
             IN  /\ LessonVideoIds(lesson) \cap (DOMAIN progress' \cup DOMAIN allProgress') = {}
                 /\ getLessonProgress(allProgress', lesson) = 0
                 /\ \A other \in DOMAIN progress \ LessonVideoIds(lesson) :
                       other \in DOMAIN progress' /\ progress'[other] = progress[other]
        /\ Wrote("resetCourseProgress")
          => LET course == CourseOf(last'.id)
             IN  /\ { video.id : video \in SeqRange(AllVideos(course.lessons)) }
                       \cap (DOMAIN progress' \cup DOMAIN allProgress') = {}
                 /\ getCourseProgress(allProgress', course) = 0
                 /\ \A lesson \in SeqRange(course.lessons) :
                       getLessonProgress(allProgress', lesson) = 0 ]_vars

\* resetLessonProgress has run on a lesson of two videos while another lesson keeps a
\* record
C8_Witness ==
    /\ last.op = "resetLessonProgress"
    /\ view = "lessons"
    /\ Len(LessonOf(last.id).videos) = 2
    /\ LessonVideoIds(LessonOf(last.id)) \cap DOMAIN progress = {}
    /\ getLessonProgress(allProgress, LessonOf(last.id)) = 0
    /\ DOMAIN progress # {}
    /\ allProgress = progress

\* the greatest element of a non-empty set of numbers
Greatest(S) == CHOOSE x \in S : \A y \in S : y <= x

\* the timestamp of a lesson: the maximum lastWatched of the records of its videos, 0
\* without any
LessonTimestamp(lesson) ==
    Greatest({0} \cup { allProgress[id].lastWatched :
                            id \in LessonVideoIds(lesson) \cap DOMAIN allProgress })

\* C9: the recent list of a course holds only lessons with a record of lastWatched > 0,
\* each once, ordered by non-increasing timestamp, the timestamp of a lesson being the
\* maximum lastWatched of its videos; it is the 4 most recent of them, or all of them when
\* there are fewer; lessons without records or with lastWatched 0 only never appear.
C9_Recent ==
    \A course \in Range(collections) :
        LET recent  == getRecentLessons(allProgress, course)
            watched == { lesson \in SeqRange(course.lessons) : LessonTimestamp(lesson) > 0 }
        IN  /\ \A i \in 1..Len(recent) : recent[i] \in watched
            /\ \A i, j \in 1..Len(recent) :
                  i < j => /\ LessonTimestamp(recent[i]) >= LessonTimestamp(recent[j])
                           /\ recent[i].id # recent[j].id
            /\ Len(recent) = IF Cardinality(watched) < 4 THEN Cardinality(watched) ELSE 4
            /\ \A lesson \in watched \ SeqRange(recent) :
                  \A i \in 1..Len(recent) : LessonTimestamp(recent[i]) >= LessonTimestamp(lesson)

\* five lessons have been watched, at different times, and the list holds four of them;
\* one of them has two videos watched at different times
C9_Witness ==
    \E course \in Range(collections) :
        LET recent == getRecentLessons(allProgress, course)
        IN  /\ Cardinality({ lesson \in SeqRange(course.lessons) : LessonTimestamp(lesson) > 0 }) = 5
            /\ Len(recent) = 4
            /\ LessonTimestamp(recent[1]) > LessonTimestamp(recent[4])
            /\ \E lesson \in SeqRange(recent) :
                  \E a, b \in LessonVideoIds(lesson) \cap DOMAIN allProgress :
                      allProgress[a].lastWatched < allProgress[b].lastWatched

\* sortKey a <= sortKey b, a name without number prefix having the key +Infinity
SortKeyAtMost(a, b) == ~b.fin \/ (a.fin /\ a.val <= b.val)

\* where a directory lists the entry of the given name
EnumerationIndex(dir, name) == CHOOSE i \in 1..Len(dir.entries) : dir.entries[i].name = name

\* items, each named by items[i][field], are ordered by (sortKey, enumeration order in dir)
OrderedBySortKey(items, field, dir) ==
    \A i, j \in 1..Len(items) :
        i < j => /\ SortKeyAtMost(items[i].sortOrder, items[j].sortOrder)
                 /\ items[i].sortOrder = items[j].sortOrder
                       => EnumerationIndex(dir, items[i][field]) < EnumerationIndex(dir, items[j][field])

\* C10: the lessons of a stored course, and the videos of each lesson, are ordered by
\* (sortKey, enumeration order): sortKeys never decrease, names without a number prefix
\* (+Infinity) come last, and equal sortKeys keep the order the directory listed them in;
\* of the lessons "02-B" then "01-A", "01-A" comes first.
C10_Sorted ==
    \A course \in Range(collections) :
        LET root == CHOOSE r \in disk : r.path = course.dirHandle
        IN  /\ OrderedBySortKey(course.lessons, "originalName", root)
            /\ \A lesson \in SeqRange(course.lessons) :
                  OrderedBySortKey(lesson.videos, "filename",
                                   root.entries[EnumerationIndex(root, lesson.originalName)])
            /\ { lesson.originalName : lesson \in SeqRange(course.lessons) } = {"01-A", "02-B"}
                  => course.lessons[1].originalName = "01-A"

\* a stored course whose root listed "02-B", "1-C", "01-A": "02-B" has moved last and the
\* two lessons of key 1 keep their order
C10_Witness ==
    \E course \in Range(collections) :
        /\ \E root \in disk :
              /\ root.path = course.dirHandle
              /\ [i \in 1..Len(root.entries) |-> root.entries[i].name] = << "02-B", "1-C", "01-A" >>
        /\ [i \in 1..Len(course.lessons) |-> course.lessons[i].originalName]
              = << "1-C", "01-A", "02-B" >>

\* how many characters at the start of name, from position from on, are of the set chars
RunLength(name, from, chars) ==
    CHOOSE k \in 0..(Len(name) - from + 1) :
        /\ \A i \in from..(from + k - 1) : CharAt(name, i) \in chars
        /\ from + k > Len(name) \/ CharAt(name, from + k) \notin chars

\* the longest leading digit run of a name
DigitRun(name) == SubSeq(name, 1, RunLength(name, 1, DigitChars))

RECURSIVE DecimalValue(_)
\* the integer a run of decimal digits denotes
DecimalValue(digits) ==
    IF digits = "" THEN 0
    ELSE DigitValue(Head(digits)) * (10 ^ (Len(digits) - 1)) + DecimalValue(Tail(digits))

\* the name without its leading digit run and the separators that follow the run
Stripped(name) ==
    IF DigitRun(name) = "" THEN name
    ELSE SubSeq(name, Len(DigitRun(name)) + RunLength(name, Len(DigitRun(name)) + 1, SeparatorChars) + 1,
                Len(name))

\* s without the white space around it
Trimmed(s) ==
    LET blanks == { i \in 1..Len(s) : CharAt(s, i) \in WhitespaceChars }
        inked  == (1..Len(s)) \ blanks
    IN  IF inked = {} THEN ""
        ELSE SubSeq(s, CHOOSE i \in inked : \A j \in inked : i <= j,
                       CHOOSE i \in inked : \A j \in inked : j <= i)

\* sub occurs in s
Contains(s, sub) == \E i \in 1..(Len(s) - Len(sub) + 1) : SubSeq(s, i, i + Len(sub) - 1) = sub

\* the file name of a video without the extension the model's files carry
WithoutMp4(filename) == SubSeq(filename, 1, Len(filename) - 4)

\* sortKey and sortLabel of a catalog entry are those of its source name
KeyAndLabel(sortOrder, numberPrefix, sourceName) ==
    /\ numberPrefix = DigitRun(sourceName)
    /\ IF DigitRun(sourceName) = "" THEN sortOrder = Infinity
       ELSE /\ sortOrder.fin
            /\ sortOrder.val = DecimalValue(DigitRun(sourceName))
            /\ sortOrder.val \in Nat

\* the catalog entries of the stored courses as <<displayName, name the display name is made of>>
DisplayNames ==
    UNION { {<<course.title, course.originalName>>}
            \cup { <<lesson.name, lesson.originalName>> : lesson \in SeqRange(course.lessons) }
            \cup { <<video.name, WithoutMp4(video.filename)>> :
                      video \in SeqRange(AllVideos(course.lessons)) }
          : course \in Range(collections) }

\* sortKey and sortLabel of every lesson and video of the stored courses
KeysAndLabels ==
    \A course \in Range(collections) :
        /\ \A lesson \in SeqRange(course.lessons) :
              KeyAndLabel(lesson.sortOrder, lesson.numberPrefix, lesson.originalName)
        /\ \A video \in SeqRange(AllVideos(course.lessons)) :
              KeyAndLabel(video.sortOrder, video.numberPrefix, video.filename)

Extension(name) ==
    IF \A i \in 1..Len(name) : CharAt(name, i) # "." THEN ""
    ELSE SubSeq(name, CHOOSE i \in 1..Len(name) :
                          /\ CharAt(name, i) = "."
                          /\ \A j \in (i + 1)..Len(name) : CharAt(name, j) # ".",
                Len(name))

\* the file name has a recognized media extension, in either case
HasMediaExtension(name) == toLowerCase(Extension(name)) \in VIDEO_EXTENSIONS

\* the names of the files directly inside a directory that have a recognized media extension
MediaFileNames(dir) ==
    { dir.entries[i].name : i \in { j \in 1..Len(dir.entries) :
          dir.entries[j].kind = "file" /\ HasMediaExtension(dir.entries[j].name) } }

\* the direct subdirectories of a root that are not caption folders and hold a media file
SectionDirs(root) ==
    { root.entries[i] : i \in { j \in 1..Len(root.entries) :
          /\ root.entries[j].kind = "directory"
          /\ ~endsWith(root.entries[j].name, "_subtitles")
          /\ MediaFileNames(root.entries[j]) # {} } }

\* the picked directory a stored course was parsed from
RootOf(course) == CHOOSE root \in disk : root.path = course.dirHandle

\* C12: the lessons of a stored course are exactly the direct subdirectories of the root
\* that hold a media file (files at the root are ignored), no folder named
\* {section}_subtitles is a lesson, and the videos of a lesson are exactly the files
\* directly inside its folder that have a recognized media extension, nothing deeper.
C12_Classification ==
    \A course \in Range(collections) :
        /\ { lesson.originalName : lesson \in SeqRange(course.lessons) }
              = { dir.name : dir \in SectionDirs(RootOf(course)) }
        /\ Len(course.lessons) = Cardinality(SectionDirs(RootOf(course)))
        /\ \A lesson \in SeqRange(course.lessons) :
              /\ ~endsWith(lesson.originalName, "_subtitles")
              /\ \E dir \in SectionDirs(RootOf(course)) :
                    /\ dir.name = lesson.originalName
                    /\ { video.filename : video \in SeqRange(lesson.videos) } = MediaFileNames(dir)
                    /\ Len(lesson.videos) = Cardinality(MediaFileNames(dir))

RECURSIVE TotalOf(_, _)
\* the sum of f over the finite set S
TotalOf(f, S) ==
    IF S = {} THEN 0 ELSE LET x == CHOOSE y \in S : TRUE IN f[x] + TotalOf(f, S \ {x})

\* sectionCount, itemCount and totalDurationSeconds of a course count its own lessons and
\* their videos, every lesson holding at least one video
CountsKeptSections(course) ==
    /\ \A lesson \in SeqRange(course.lessons) :
          /\ Len(lesson.videos) >= 1
          /\ lesson.totalVideos = Len(lesson.videos)
          /\ lesson.totalDuration
                = TotalOf([i \in 1..Len(lesson.videos) |-> lesson.videos[i].duration],
                          1..Len(lesson.videos))
    /\ course.totalLessons = Len(course.lessons)
    /\ course.totalVideos
          = TotalOf([i \in 1..Len(course.lessons) |-> Len(course.lessons[i].videos)],
                    1..Len(course.lessons))
    /\ course.totalDuration
          = TotalOf([i \in 1..Len(course.lessons) |-> course.lessons[i].totalDuration],
                    1..Len(course.lessons))

\* C13: every lesson of every course parseFolderStructure returns for a directory of the
\* disk, and every lesson of every stored course, has at least one video; a folder without
\* videos is not among the lessons and adds nothing to totalLessons, totalVideos or
\* totalDuration, which count the kept lessons and their videos only.
C13_NoEmptySection ==
    /\ \A root \in disk :
          /\ CountsKeptSections(parseFolderStructure(root))
          /\ \A lesson \in SeqRange(parseFolderStructure(root).lessons) :
                \E i \in UsableSections(root) : root.entries[i].name = lesson.originalName
          /\ parseFolderStructure(root).totalLessons = Cardinality(UsableSections(root))
    /\ \A course \in Range(collections) : CountsKeptSections(course)

\* a stored course of one lesson whose root listed that lesson's folder and a folder
\* without videos
C13_Witness ==
    \E course \in Range(collections) :
        /\ course.totalLessons = 1
        /\ course.totalVideos = 1
        /\ \E i, j \in 1..Len(RootOf(course).entries) :
              /\ RootOf(course).entries[i].name = "notes"
              /\ RootOf(course).entries[j].name = course.lessons[1].originalName

\* the name of a file without its extension
BaseName(name) == SubSeq(name, 1, Len(name) - Len(Extension(name)))

\* where the directory {section}_subtitles next to the section lists a caption file (.srt
\* in either case) whose name without extension is the video's file name without extension
CaptionMatches(root, section, filename) ==
    { <<d, i>> \in (1..Len(root.entries)) \X (1..MaxEntries) :
        /\ root.entries[d].kind = "directory"
        /\ root.entries[d].name = section \o "_subtitles"
        /\ i <= Len(root.entries[d].entries)
        /\ root.entries[d].entries[i].kind = "file"
        /\ toLowerCase(Extension(root.entries[d].entries[i].name)) = ".srt"
        /\ BaseName(root.entries[d].entries[i].name) = BaseName(filename) }

\* C14: a video of a stored course has a subtitleFile iff the root lists a directory
\* {lesson}_subtitles holding a caption file whose name without extension equals the
\* video's file name without extension, and then it is the first such file the directory
\* lists; without the directory or without such a file subtitleFile is undefined and the
\* video is ingested all the same; the caption folder of one lesson serves no other lesson.
C14_Caption ==
    \A course \in Range(collections) :
        /\ \A root \in disk :
              root.path = course.dirHandle =>
                  \A dir \in SectionDirs(root) :
                      \E lesson \in SeqRange(course.lessons) :
                          /\ lesson.originalName = dir.name
                          /\ { video.filename : video \in SeqRange(lesson.videos) }
                                = MediaFileNames(dir)
        /\ \A lesson \in SeqRange(course.lessons) :
              \A video \in SeqRange(lesson.videos) :
                  LET matches == CaptionMatches(RootOf(course), lesson.originalName, video.filename)
                  IN  /\ video.subtitleFile # undefined <=> matches # {}
                      /\ \A m \in matches :
                            (\A n \in matches : m[2] <= n[2])
                                => video.subtitleFile = RootOf(course).entries[m[1]].entries[m[2]].name

\* a stored course whose caption folder lists "01-Intro.SRT" before "01-Intro.srt": the
\* first is the caption of "01-Intro.mp4" of lesson "01-A", while "02-Next.mp4" and the
\* "01-Intro.mp4" of lesson "02-B" have none
C14_Witness ==
    \E course \in Range(collections) :
        /\ \E i \in 1..Len(RootOf(course).entries) :
              /\ RootOf(course).entries[i].name = "01-A_subtitles"
              /\ Len(RootOf(course).entries[i].entries) >= 2
              /\ RootOf(course).entries[i].entries[1].name = "01-Intro.SRT"
              /\ RootOf(course).entries[i].entries[2].name = "01-Intro.srt"
        /\ course.lessons[1].videos[1].filename = "01-Intro.mp4"
        /\ course.lessons[1].videos[1].subtitleFile = "01-Intro.SRT"
        /\ course.lessons[1].videos[2].subtitleFile = undefined
        /\ course.lessons[2].videos[1].subtitleFile = undefined

\* the probe of the file fails: the file cannot be opened, its decoding fires error, or no
\* event fires before the timeout
ProbeFails(file) == ~file.opens \/ ~file.decodes

\* every media file of every section folder of the root is a video of the course's lesson
\* of that folder, with duration 0 when its probe fails, and a lesson whose first video's
\* probe fails has no thumbnail
IngestedDespiteFailures(root, course) ==
    \A dir \in SectionDirs(root) :
        \E lesson \in SeqRange(course.lessons) :
            /\ lesson.originalName = dir.name
            /\ \A i \in 1..Len(dir.entries) :
                  dir.entries[i].name \in MediaFileNames(dir)
                      => \E v \in 1..Len(lesson.videos) :
                            /\ lesson.videos[v].filename = dir.entries[i].name
                            /\ lesson.videos[v].duration
                                  = (IF ProbeFails(dir.entries[i]) THEN 0
                                     ELSE dir.entries[i].duration)
                            /\ (v = 1 /\ ProbeFails(dir.entries[i])) => lesson.thumbnail = ""

\* C15: no selectFolder ends in the error of a file that could not be opened, and the
\* course a selectFolder stores holds every media file of every section folder, a file
\* whose probe failed (not opened, decode error, timeout) with duration 0 and without
\* preview.
C15_Absorbed ==
    [][ last'.op = "selectFolder"
        => /\ error' # FileUnreadableMessage
           /\ last'.ret # null
                 => IngestedDespiteFailures(CHOOSE root \in disk :
                                                root.path = collections'[last'.ret].dirHandle,
                                            collections'[last'.ret]) ]_vars

\* a stored course whose lesson "01-A" holds a video whose decoding fired error and one
\* that timed out, both with duration 0, next to one that decoded
C15_Witness ==
    \E course \in Range(collections) :
    \E lesson \in SeqRange(course.lessons) :
        /\ lesson.originalName = "01-A"
        /\ \E a, b, c \in 1..Len(lesson.videos) :
              /\ lesson.videos[a].filename = "2-b.mp4" /\ lesson.videos[a].duration = 0
              /\ lesson.videos[b].filename = "3-c.mp4" /\ lesson.videos[b].duration = 0
              /\ lesson.videos[c].filename = "1-a.mp4" /\ lesson.videos[c].duration = 100

\* C15 for the files that open: with every file of the picked directory readable, the
\* decode errors and timeouts of the probes are absorbed
C15_AbsorbedWhenReadable ==
    [][ (last'.op = "selectFolder" /\ \A root \in disk : ~ParseRejects(root))
        => /\ error' # FileUnreadableMessage
           /\ last'.ret # null
                 => IngestedDespiteFailures(CHOOSE root \in disk :
                                                root.path = collections'[last'.ret].dirHandle,
                                            collections'[last'.ret]) ]_vars

\* C16: verifyFolderAccess always returns a boolean; with the permission already granted it
\* returns true without a prompt; with queryPermission throwing it returns false without a
\* prompt; otherwise it issues exactly one requestPermission and returns true iff that
\* request resolves "granted" (false when it is declined, dismissed or throws).
C16_Revalidate ==
    [][ last'.op = "verifyFolderAccess"
        => /\ last'.ret \in BOOLEAN
           /\ permissionLog'.query = "granted"
                 => last'.ret /\ permissionLog'.requests = << >>
           /\ permissionLog'.query = "throws"
                 => ~last'.ret /\ permissionLog'.requests = << >>
           /\ permissionLog'.query \in {"denied", "prompt"}
                 => /\ Len(permissionLog'.requests) = 1
                    /\ last'.ret <=> permissionLog'.requests[1] = "granted" ]_vars

\* verifyFolderAccess has found the permission at "prompt", asked once, was declined and
\* returned false
C16_Witness ==
    /\ last.op = "verifyFolderAccess"
    /\ permissionLog = [picker |-> "none", query |-> "prompt", requests |-> << "denied" >>]
    /\ last.ret = FALSE

\* C17: a selectFolder whose picker the user dismissed (AbortError) returns null, leaves
\* error null and both stores as they were, and asks no permission; one whose permission
\* was declined returns null with the error of the denial and both stores as they were;
\* every selectFolder leaves isLoading false and requests the permission at most once.
C17_AbandonedOrDenied ==
    [][ last'.op = "selectFolder"
        => /\ ~isLoading'
           /\ Len(permissionLog'.requests) <= 1
           /\ permissionLog'.picker = "AbortError"
                 => /\ last'.ret = null /\ error' = null
                    /\ folders' = folders /\ collections' = collections
                    /\ permissionLog'.query = "none"
           /\ ( /\ permissionLog'.picker = "resolved"
                /\ permissionLog'.query # "granted"
                /\ permissionLog'.requests # << "granted" >> )
                 => /\ last'.ret = null /\ error' = PermissionDeniedMessage
                    /\ error' # null
                    /\ folders' = folders /\ collections' = collections ]_vars

\* the user has dismissed the picker after an earlier selectFolder had stored a course:
\* no error is shown, the course is still stored and the page is no longer loading
C17_Witness ==
    /\ last.op = "selectFolder"
    /\ permissionLog.picker = "AbortError"
    /\ error = null
    /\ ~isLoading
    /\ collections # EmptyStore

\* the permission of the picked folder has been declined: the denial is shown
C17_WitnessDenied ==
    /\ last.op = "selectFolder"
    /\ permissionLog = [picker |-> "resolved", query |-> "prompt", requests |-> << "denied" >>]
    /\ error = PermissionDeniedMessage
    /\ ~isLoading

\* the probes of the parser
ProbeNames == {"getVideoDuration", "generateThumbnail"}

\* C19: no object URL created by getVideoDuration or generateThumbnail is left unrevoked
\* once selectFolder has settled, whether the probed file decoded, fired error or ran
\* into the timeout, and whether the ingestion succeeded or failed.
C19_ProbesReleased ==
    \A i \in 1..Len(objectUrls) : objectUrls[i].by \notin ProbeNames

\* selectFolder has stored a course whose first lesson lists, in this order, a file that
\* ran into the timeout, one whose decoding fired error and one that decoded, and no
\* object URL is left
C19_Witness ==
    /\ last.op = "selectFolder"
    /\ last.ret # null
    /\ objectUrls = << >>
    /\ \E root \in disk :
          /\ root.entries[1].name = "01-A"
          /\ Len(root.entries[1].entries) = 3
          /\ root.entries[1].entries[1].stalls
          /\ ~root.entries[1].entries[2].decodes /\ root.entries[1].entries[2].opens
          /\ ~root.entries[1].entries[2].stalls
          /\ root.entries[1].entries[3].decodes

\* the video of the current lesson with the given id
VideoById(id) == CHOOSE video \in SeqRange(CurrentLesson.videos) : video.id = id

\* the step replaces the current video of the mounted player by another one
SwitchesVideo ==
    /\ view = "player" /\ view' = "player"
    /\ currentVideo # null
    /\ currentVideo' \notin {null, currentVideo}

\* the step stores for the outgoing video the position the element has reached in the
\* medium of that video, with that video's duration, and leaves the src of the element
\* as it is
FlushesOutgoing ==
    /\ videoURL' = videoURL
    /\ Playing.id = currentVideo
    /\ currentVideo \in DOMAIN progress'
    /\ progress'[currentVideo].currentTime = position
    /\ progress'[currentVideo].duration = VideoById(currentVideo).fileHandle.duration

\* C18: every step that replaces the current video by another one (sidebar, next,
\* previous, auto-advance) stores, for the outgoing video, the position the outgoing
\* video has reached at that moment and its duration, the element still holding the
\* outgoing medium.
C18_Flush == [][ SwitchesVideo => FlushesOutgoing ]_vars

\* C18 for a switch away from the video whose medium the element shows
C18_FlushWhenShown ==
    [][ (SwitchesVideo /\ Playing.id = currentVideo) => FlushesOutgoing ]_vars

\* the first video was left at position 95 for the second one, whose load is still to
\* come: the stored position of the first video is 95
C18_Witness ==
    /\ view = "player"
    /\ last.op \in {"handleSelectVideo", "playNextVideo"}
    /\ last.t = 95
    /\ currentVideo # last.id
    /\ progress[last.id].currentTime = 95
    /\ videoURL.of = "1-a.mp4"

\* the object URLs getVideoURL has created for the player
IsPlayerUrl(url) == url.by = "getVideoURL"

\* C20: at most one object URL made by getVideoURL is held unrevoked at any time, it is
\* the src of the element, and none is held once the player is left.
C20_OnePlaybackUrl ==
    /\ Len(SelectSeq(objectUrls, IsPlayerUrl)) <= 1
    /\ \A i \in 1..Len(objectUrls) :
          IsPlayerUrl(objectUrls[i]) => view = "player" /\ videoURL = objectUrls[i]

\* the last useFileSystem call was a verifyFolderAccess that found or obtained the permission
RevalidatedGranted ==
    /\ permissionLog.picker = "none"
    /\ permissionLog.query = "granted" \/ permissionLog.requests = << "granted" >>

\* C21: in a session that found its course stored, whenever loadVideo opens a file of the
\* course (getVideoURL returns a URL), verifyFolderAccess has been called on the stored
\* handle before and has returned true.
C21_Revalidated ==
    [][ (last'.op = "loadVideo" /\ last'.ret # null) => RevalidatedGranted ]_vars

\* the step stores, for the video whose medium has ended, a record with the position at
\* the duration of the medium, which isCompleted reports complete
EndedRecorded ==
    /\ Playing.id \in DOMAIN progress'
    /\ progress'[Playing.id].currentTime = ElementDuration
    /\ progress'[Playing.id].duration = ElementDuration
    /\ CompletenessPredicate(progress'[Playing.id])
    /\ isCompleted(allProgress', Playing.id)

\* the callback of the progress interval stores the position of the element for the
\* current video
IntervalRecorded ==
    /\ currentVideo \in DOMAIN progress'
    /\ progress'[currentVideo].currentTime = position

StoredItems ==
    UNION { UNION { { [path |-> course.dirHandle, section |-> lesson.originalName,
                       file |-> video.filename, id |-> video.id, lesson |-> lesson.id]
                      : video \in SeqRange(lesson.videos) }
                    : lesson \in SeqRange(course.lessons) }
            : course \in Range(collections) }

\* C23: among the stored courses two videos parsed from different (directory, lesson
\* folder, file name) triples never have the same id, two lessons of different folders
\* never have the same id, and a selectFolder that stores a course never replaces the
\* stored course of another directory.
C23_UniqueIds ==
    [][ /\ \A a, b \in StoredItems' :
              /\ a.id = b.id => (a.path = b.path /\ a.section = b.section /\ a.file = b.file)
              /\ a.lesson = b.lesson => (a.path = b.path /\ a.section = b.section)
        /\ (last'.op = "selectFolder" /\ last'.ret # null /\ last'.id \in DOMAIN collections)
              => collections'[last'.id].dirHandle = collections[last'.id].dirHandle ]_vars

\* C23 for the ids of different courses only: a course whose name holds no "-" and is the
\* name of no other directory shares no id with another stored course
C23_PlainNames ==
    \A a, b \in StoredItems :
        (a.path = "/home/e" /\ a.id = b.id) => b.path = "/home/e"

\* a stored video whose file never fires a media event has duration 0, and its lesson has
\* no thumbnail when it is the lesson's first video
TimedOutAsFailure ==
    \A course \in Range(collections) :
    \A lesson \in SeqRange(course.lessons) :
    \A v \in 1..Len(lesson.videos) :
        lesson.videos[v].fileHandle.stalls
            => /\ lesson.videos[v].duration = 0
               /\ v = 1 => lesson.thumbnail = ""

\* C24: once parseFolderStructure has started on a picked directory, selectFolder
\* eventually sets isLoading back to false, also when a file never fires loadedmetadata,
\* seeked or error; the video of such a file is stored with duration 0 and without preview.
C24_Terminates ==
    /\ (probing.dirHandle # "") ~> ~isLoading
    /\ []TimedOutAsFailure

\* selectFolder has ended and stored a course whose first lesson starts with a file that
\* never fired a media event
C24_Witness ==
    /\ ~isLoading
    /\ last.op = "selectFolder"
    /\ last.ret # null
    /\ \E course \in Range(collections) :
          /\ course.lessons[1].videos[1].fileHandle.stalls
          /\ course.lessons[1].thumbnail = ""

\* the aggregates of a course are those of its own lessons, and the aggregates of a lesson
\* those of its own videos
BottomUp(course) ==
    /\ \A lesson \in SeqRange(course.lessons) :
          /\ lesson.totalVideos = Len(lesson.videos)
          /\ lesson.totalDuration
                = TotalOf([i \in 1..Len(lesson.videos) |-> lesson.videos[i].duration],
                          1..Len(lesson.videos))
    /\ course.totalLessons = Len(course.lessons)
    /\ course.totalVideos
          = TotalOf([i \in 1..Len(course.lessons) |-> course.lessons[i].totalVideos],
                    1..Len(course.lessons))
    /\ course.totalDuration
          = TotalOf([i \in 1..Len(course.lessons) |-> course.lessons[i].totalDuration],
                    1..Len(course.lessons))

\* C25: in the course parseFolderStructure returns for every directory of the disk, and in
\* every stored course, totalVideos and totalDuration of a lesson are the number of its
\* videos and the sum of their durations, and totalLessons, totalVideos and totalDuration
\* of the course are the number of its lessons and the sums of the lessons' totalVideos
\* and totalDuration: a folder that was not kept as a lesson adds nothing.
C25_Aggregates ==
    /\ \A root \in disk : BottomUp(parseFolderStructure(root))
    /\ \A course \in Range(collections) : BottomUp(course)

\* a stored course whose lesson holds videos of different durations, one of them
\* failing to decode
C25_Witness ==
    \E course \in Range(collections) :
    \E lesson \in SeqRange(course.lessons) :
        /\ lesson.totalVideos = 3
        /\ lesson.totalDuration = 108
        /\ course.totalDuration = 108
        /\ \E v \in 1..3 : lesson.videos[v].duration = 0

\* the initial-video effect has just selected the video of the opened lesson that the
\* records say was watched last, the first video when no record of the lesson says so
SelectsMostRecent(records) ==
    last'.op = "setCurrentVideo"
        => currentVideo' = MostRecentVideo(CurrentLesson.videos, records).id

\* C26: the video the initial-video effect selects when a lesson is opened is the video of
\* the lesson with the greatest lastWatched > 0 among the stored progress records, or the
\* first video of the lesson when none has one, whether or not loadAllProgress has
\* delivered the records before the lesson is loaded.
C26_InitialVideo == [][SelectsMostRecent(progress)]_vars

\* once loadAllProgress has delivered the records the effect selects by them
C26_InitialVideoWhenLoaded == [][~loadPending => SelectsMostRecent(progress)]_vars

\* the effect has selected the second video of the lesson, watched last, with the records
\* delivered
C26_Witness ==
    /\ last.op = "setCurrentVideo"
    /\ ~loadPending
    /\ currentVideo = CurrentLesson.videos[2].id
    /\ currentVideo \in DOMAIN progress

\* the controls are shown and no timer that would hide them is pending
ShownForGood == showControls /\ timers = {}

\* the controls have just been hidden: by the callback of a timer, while playing, timeout
\* milliseconds or more after the last call of handleActivity
HiddenByIdleTimer ==
    (showControls /\ ~showControls')
        => /\ last'.op = "setTimeout"
           /\ isPlaying
           /\ idle >= timeout

\* C27: while isPlaying is false the controls are shown and no timer is pending that
\* could hide them; the controls are hidden only by a timer, while isPlaying is true, and
\* not before timeout milliseconds have passed since the last handleActivity; at most one
\* timer is pending at any time.
C27_Controls ==
    /\ [](~isPlaying => ShownForGood)
    /\ [](Cardinality(timers) <= 1)
    /\ [][HiddenByIdleTimer]_vars

\* playback was paused with the controls hidden, after a timer had been restarted by an
\* activity and had run
C27_Witness ==
    /\ ~isPlaying
    /\ last.op = "setIsPlaying"
    /\ timerCount >= 2
    /\ timeoutRef = timerCount
    /\ idle >= timeout

\* VideoSidebar: const isCompleted = videoProgress && videoProgress.percentage > 90
SidebarIsCompleted(map, id) ==
    IF id \notin DOMAIN map THEN FALSE ELSE PercentageAbove(map[id].percentage, 90)

\* VideoSidebar: lessonProgress, the rounded share of the videos with percentage > 90
SidebarLessonProgress(map, videos) ==
    IF Len(videos) > 0
    THEN RoundedPercent(Cardinality({ i \in 1..Len(videos) :
                                        SidebarIsCompleted(map, videos[i].id) }),
                        Len(videos))
    ELSE 0

\* C28: in the player, for every video of the opened lesson, the completed mark of
\* VideoSidebar equals useProgress.isCompleted on the same records, and the lesson
\* percentage of VideoSidebar equals useProgress.getLessonProgress.
C28_SamePredicate ==
    view = "player"
        => /\ \A video \in SeqRange(CurrentLesson.videos) :
                 SidebarIsCompleted(allProgress, video.id) = isCompleted(allProgress, video.id)
           /\ SidebarLessonProgress(allProgress, CurrentLesson.videos)
                 = getLessonProgress(allProgress, CurrentLesson)

\* the two agree on a video without record, on a video watched beyond 95 percent, and
\* on a video watched to at most 90 percent with 5 seconds or more left
C28_SameOutsideTheGap ==
    view = "player"
        => \A video \in SeqRange(CurrentLesson.videos) :
              (\/ video.id \notin DOMAIN allProgress
               \/ PercentageAbove(allProgress[video.id].percentage, 95)
               \/ /\ ~PercentageAbove(allProgress[video.id].percentage, 90)
                  /\ allProgress[video.id].duration - allProgress[video.id].currentTime >= 5)
                 => SidebarIsCompleted(allProgress, video.id)
                        = isCompleted(allProgress, video.id)

\* the sidebar shows a video watched beyond 95 percent as completed
C28_Witness ==
    /\ view = "player"
    /\ \E video \in SeqRange(CurrentLesson.videos) :
          /\ SidebarIsCompleted(allProgress, video.id)
          /\ isCompleted(allProgress, video.id)

\* the handlers that delete the record of a video
ResetOps ==
    {"handleResetVideoProgress", "resetLessonProgress", "resetCourseProgress",
     "handleDeleteCourse"}

\* the video marked complete by the step before is still complete after this step, by
\* the stored records and by the records in memory
StaysComplete ==
    (last.op = "handleMarkVideoComplete" /\ last'.op \notin ResetOps)
        => /\ isCompleted(loadAllProgress(progress'), last.id)
           /\ isCompleted(allProgress', last.id)

\* C29: the record of a video marked complete through handleMarkVideoComplete is still
\* complete after whatever the player does next, the periodic save of the interval and
\* the save of handleSelectVideo included, unless that is a reset of its progress.
C29_MarkedStaysComplete == [][StaysComplete]_vars

\* a video that is not the current one stays complete over the saves of the player
C29_StaysCompleteWhenNotCurrent ==
    [][last.id # currentVideo => StaysComplete]_vars

\* the interval has saved the position of the current video right after another video was
\* marked complete
C29_Witness ==
    /\ last.op = "updateProgress"
    /\ \E video \in SeqRange(CurrentLesson.videos) :
          /\ video.id # currentVideo
          /\ video.id \in DOMAIN progress
          /\ getProgress(progress, video.id).currentTime = video.duration
          /\ isCompleted(allProgress, video.id)

\* the entry of a key is the same in two states of a store: absent in both or equal
SameEntry(before, after, key) ==
    /\ key \in DOMAIN before <=> key \in DOMAIN after
    /\ key \in DOMAIN before => after[key] = before[key]

\* handleDeleteCourse has left nothing of the course stored
NothingLeftOf(course) ==
    /\ course.id \notin DOMAIN collections'
    /\ course.id \notin DOMAIN folders'
    /\ \A v \in 1..Len(AllVideos(course.lessons)) :
          AllVideos(course.lessons)[v].id \notin DOMAIN progress'

\* handleDeleteCourse has left the entries of the courses stored under other ids as
\* they were
OthersUnchanged(course) ==
    /\ \A id \in (DOMAIN collections \cup DOMAIN folders) \ {course.id} :
          /\ SameEntry(collections, collections', id)
          /\ SameEntry(folders, folders', id)
    /\ \A other \in Range(collections) :
          other.id # course.id
              => \A v \in 1..Len(AllVideos(other.lessons)) :
                    SameEntry(progress, progress', AllVideos(other.lessons)[v].id)

\* the capability store and the collection store hold the same ids
SameIds == DOMAIN folders = DOMAIN collections

\* C30: handleDeleteCourse leaves no progress record of the videos of the removed course,
\* no collections entry and no folders entry under its id, and leaves the entries and the
\* progress records of every other course as they were; the folders store and the
\* collections store hold the same ids after every sequence of selectFolder and
\* handleDeleteCourse.
C30_Removal ==
    /\ [][last'.op = "handleDeleteCourse"
            => /\ NothingLeftOf(collections[last'.id])
               /\ OthersUnchanged(collections[last'.id])]_vars
    /\ []SameIds

\* handleDeleteCourse leaves nothing of the removed course, and leaves the two entries of
\* every other stored course as they were
C30_RemovedWithItsEntries ==
    [][last'.op = "handleDeleteCourse"
        => /\ NothingLeftOf(collections[last'.id])
           /\ \A id \in (DOMAIN collections \cup DOMAIN folders) \ {last'.id} :
                 /\ SameEntry(collections, collections', id)
                 /\ SameEntry(folders, folders', id)]_vars

\* a step other than a selectFolder whose store write is rejected keeps the two stores
\* on the same ids
C30_SameIdsUnlessWriteRejected ==
    [][(SameIds /\ ~(last'.op = "selectFolder" /\ error' = StoreFailedMessage))
            => SameIds']_vars

\* a course with a watched video has been removed while another course is stored
C30_Witness ==
    /\ last.op = "handleDeleteCourse"
    /\ last.id \notin DOMAIN collections
    /\ collections # EmptyStore
    /\ SameIds
====
